---------------------------- MODULE Spec2Model ----------------------------
(***************************************************************************)
(* A model of the MIMaaS API client (src/src/mimaas): the response         *)
(* classifier MIMaaSClient._handle_response, the transport wrapper         *)
(* _make_request, Request.from_dict / Results.from_dict, get_request and   *)
(* the polling loop wait_for_completion, the other operations of the       *)
(* client (login, register, submit, list, delete, validate, download) on   *)
(* a local file system, and the sources of the credential (auth.load_token *)
(* and Config._get_api_token).                                             *)
(*                                                                         *)
(* Text is modelled as a sequence of one-character strings, so that        *)
(* str.lower(), the `in` substring test and f-string formatting are        *)
(* computed rather than assumed.  A JSON document is a tagged value        *)
(* [t, v]; the text of a JSON body is computed from the document by        *)
(* json_dumps, and response.json() gives the document back (or raises      *)
(* for a body that is not JSON).                                           *)
(***************************************************************************)
EXTENDS Integers, Sequences, FiniteSets, TLC

VARIABLES
    pc,             \* position of the operation being modelled
    response,       \* the response the transport delivers (status_code, body)
    outcome,        \* what the operation returned or raised
    now,            \* time.time()
    start_time,     \* wait_for_completion: start_time
    timeout,        \* wait_for_completion: timeout argument
    poll_interval,  \* wait_for_completion: poll_interval argument
    request,        \* wait_for_completion: request (the last get_request result)
    elapsed,        \* wait_for_completion: elapsed, as last computed
    polls,          \* number of get_request calls issued by this invocation
    sleeps,         \* number of time.sleep calls issued by this invocation
    ends,           \* number of times this invocation returned or raised
    api_token,      \* config.api_token (JNull: none)
    request_id,     \* wait_for_completion: request_id argument
    calls,          \* the transport calls issued by the invocation, in order
    op,             \* the client operation invoked last, with its arguments
    files,          \* the local file system: directories and regular files
    token_file,     \* the persisted token file (Absent: none): mode and content
    history,        \* the fetches of one work item so far: reported and returned
    environ         \* the process environment the configuration is read from

\* The state only a session of client operations uses.
session_vars == <<op, files, token_file, history, environ>>

vars == <<pc, response, outcome, now, start_time, timeout, poll_interval,
          request, elapsed, polls, sleeps, ends, api_token, request_id, calls,
          session_vars>>

-----------------------------------------------------------------------------
(* Bounds of the model.                                                    *)

\* HTTP status codes range over MinStatusCode..MaxStatusCode.
MinStatusCode == 100

MaxStatusCode == 599

\* wait_for_completion: timeout ranges over 0..MaxTimeout seconds (and the
\* values of Timeouts below).
MaxTimeout == 3

\* wait_for_completion: poll_interval ranges over 0..MaxPollInterval seconds
\* (and its default).
MaxPollInterval == 2

\* One get_request call takes no time or MaxFetchTime seconds.
MaxFetchTime == 1

\* time.sleep(t) returns after t or t+MaxOversleep seconds.
MaxOversleep == 1

\* wait_for_completion is entered at a time in 0..MaxStartTime.
MaxStartTime == 1

\* The default poll_interval of wait_for_completion (client.py:416).
DEFAULT_POLL_INTERVAL == 5

\* Request ids range over 1..MaxRequestId.
MaxRequestId == 1

\* One invocation of wait_for_completion is followed for MaxPolls polls.
MaxPolls == 16

-----------------------------------------------------------------------------
(* Text.                                                                   *)

UpperCase == <<"A","B","C","D","E","F","G","H","I","J","K","L","M",
               "N","O","P","Q","R","S","T","U","V","W","X","Y","Z">>

LowerCase == <<"a","b","c","d","e","f","g","h","i","j","k","l","m",
               "n","o","p","q","r","s","t","u","v","w","x","y","z">>

\* str.lower() on one character.
lower_char(c) ==
    IF \E i \in 1..Len(UpperCase) : UpperCase[i] = c
    THEN LowerCase[CHOOSE i \in 1..Len(UpperCase) : UpperCase[i] = c]
    ELSE c

\* str.lower().
lower(s) == [i \in 1..Len(s) |-> lower_char(s[i])]

\* Python's `p in s` on strings.
contains(s, p) ==
    \E i \in 0..(Len(s) - Len(p)) : SubSeq(s, i + 1, i + Len(p)) = p

DigitChar == <<"0","1","2","3","4","5","6","7","8","9">>

\* str(n) for a non-negative int.
RECURSIVE str_int(_)
str_int(n) ==
    IF n < 10 THEN <<DigitChar[n + 1]>>
    ELSE str_int(n \div 10) \o <<DigitChar[(n % 10) + 1]>>

-----------------------------------------------------------------------------
(* JSON documents.                                                         *)

JStr(s)  == [t |-> "str",  v |-> s]

JNum(n)  == [t |-> "num",  v |-> str_int(n)]

JNull    == [t |-> "null", v |-> <<>>]

JTrue    == [t |-> "true", v |-> <<>>]

\* Marks a member, a header or a value that is not there at all.
Absent == [t |-> "absent", v |-> <<>>]

JFalse   == [t |-> "false", v |-> <<>>]

JList(xs) == [t |-> "list", v |-> xs]

\* A JSON object: the sequence of its <<key, value>> members, keys distinct.
JDict(members) == [t |-> "dict", v |-> members]

\* json.dumps: the text of a document.
RECURSIVE json_dumps(_)
RECURSIVE dumps_items(_)
RECURSIVE dumps_members(_)
json_dumps(d) ==
    CASE d.t = "str"  -> <<"\"">> \o d.v \o <<"\"">>
      [] d.t = "num"  -> d.v
      [] d.t = "null" -> <<"n","u","l","l">>
      [] d.t = "true" -> <<"t","r","u","e">>
      [] d.t = "false" -> <<"f","a","l","s","e">>
      [] d.t = "list" -> <<"[">> \o dumps_items(d.v) \o <<"]">>
      [] d.t = "dict" -> <<"{">> \o dumps_members(d.v) \o <<"}">>

dumps_items(xs) ==
    IF xs = <<>> THEN <<>>
    ELSE json_dumps(Head(xs))
         \o (IF Len(xs) > 1 THEN <<",", " ">> ELSE <<>>)
         \o dumps_items(Tail(xs))

dumps_members(ms) ==
    IF ms = <<>> THEN <<>>
    ELSE <<"\"">> \o Head(ms)[1] \o <<"\"", ":", " ">> \o json_dumps(Head(ms)[2])
         \o (IF Len(ms) > 1 THEN <<",", " ">> ELSE <<>>)
         \o dumps_members(Tail(ms))

\* `key in d` for a dict document.
has_key(d, key) == \E i \in 1..Len(d.v) : d.v[i][1] = key

\* d[key] for a dict document that has the key.
item(d, key) == d.v[CHOOSE i \in 1..Len(d.v) : d.v[i][1] = key][2]

\* d.get(key, default) for a dict document.
dict_get(d, key, default) == IF has_key(d, key) THEN item(d, key) ELSE default

\* bool(x) of a parsed JSON value.
truthy(x) ==
    CASE x.t = "null" -> FALSE
      [] x.t = "false" -> FALSE
      [] x.t = "true" -> TRUE
      [] x.t = "num"  -> x.v # <<"0">>
      [] OTHER        -> x.v # <<>>

\* str(x) of a parsed JSON value, as an f-string formats it.
py_str(x) ==
    CASE x.t = "str"  -> x.v
      [] x.t = "null" -> <<"N","o","n","e">>
      [] x.t = "true" -> <<"T","r","u","e">>
      [] x.t = "false" -> <<"F","a","l","s","e">>
      [] OTHER        -> json_dumps(x)

-----------------------------------------------------------------------------
(* Responses.                                                              *)

\* A response body that is a JSON document.
JsonBody(doc) == [is_json |-> TRUE, doc |-> doc, text |-> json_dumps(doc)]

\* A response body that is not JSON: response.json() raises on it.
TextBody(s) == [is_json |-> FALSE, doc |-> JNull, text |-> s]

Response(code, body) == [status_code |-> code, body |-> body]

NoResponse == [status_code |-> 0, body |-> TextBody(<<>>)]

\* What an operation did: returned a value, or raised exception exc(arg).
Returned(v) == [tag |-> "return", value |-> v]

Raised(exc, arg) == [tag |-> "raise", exc |-> exc, arg |-> arg]

NoOutcome == [tag |-> "none"]


-----------------------------------------------------------------------------
(* String literals of the client.                                          *)

K_message == <<"m","e","s","s","a","g","e">>

\* "no available runs" (client.py:142)
QuotaPhrase == <<"n","o"," ","a","v","a","i","l","a","b","l","e"," ","r","u","n","s">>

\* "HTTP " (client.py:136, client.py:152)
S_HTTP == <<"H","T","T","P"," ">>

\* "Server error (" (client.py:150)
S_ServerError == <<"S","e","r","v","e","r"," ","e","r","r","o","r"," ","(">>

\* "No available runs remaining. Available: " (exceptions.py:29)
S_NoRunsRemaining == <<"N","o"," ","a","v","a","i","l","a","b","l","e"," ","r","u","n","s"," ","r","e","m","a","i","n","i","n","g","."," ","A","v","a","i","l","a","b","l","e",":"," ">>

\* "No API token found. Please login first or set MIMAAS_API_TOKEN environment variable." (client.py:94)
S_NoToken == <<"N","o"," ","A","P","I"," ","t","o","k","e","n"," ","f","o","u","n","d","."," ","P","l","e","a","s","e"," ","l","o","g","i","n"," ","f","i","r","s","t"," ","o","r"," ","s","e","t"," ","M","I","M","A","A","S","_","A","P","I","_","T","O","K","E","N"," ","e","n","v","i","r","o","n","m","e","n","t"," ","v","a","r","i","a","b","l","e",".">>

\* "Failed to connect to " (client.py:109)
S_FailedToConnect == <<"F","a","i","l","e","d"," ","t","o"," ","c","o","n","n","e","c","t"," ","t","o"," ">>

\* "Request timeout after " (client.py:111)
S_RequestTimeout == <<"R","e","q","u","e","s","t"," ","t","i","m","e","o","u","t"," ","a","f","t","e","r"," ">>

\* "Request failed: " (client.py:113)
S_RequestFailed == <<"R","e","q","u","e","s","t"," ","f","a","i","l","e","d",":"," ">>

\* Config.DEFAULT_API_URL (config.py:21)
DEFAULT_API_URL == <<"h","t","t","p",":","/","/","1","0",".","2","0","3",".","1","8","4",".","1","3",":","8","0">>

\* Config.DEFAULT_TIMEOUT (config.py:24)
DEFAULT_TIMEOUT == 120

-----------------------------------------------------------------------------
(* MIMaaSClient._handle_response (client.py:115-152).                      *)

\* Lines 131-136: the error message of a response with status >= 400.  The
\* except branch is taken when response.json() raises (the body is not JSON)
\* and when error_data.get raises AttributeError (the document is not a dict).
error_message_of(resp) ==
    IF resp.body.is_json /\ resp.body.doc.t = "dict"
    THEN IF has_key(resp.body.doc, K_message)
         THEN item(resp.body.doc, K_message)
         ELSE JStr(resp.body.text)
    ELSE IF resp.body.text # <<>>
         THEN JStr(resp.body.text)
         ELSE JStr(S_HTTP \o str_int(resp.status_code))

\* QuotaExceededError() with its defaults (exceptions.py:26-30).
QuotaExceededError ==
    Raised("QuotaExceededError", JStr(S_NoRunsRemaining \o str_int(0)))

\* handle_403 with the phrase compared without lower().
handle_403_case_sensitive(error_message) ==
    IF error_message.t # "str"
    THEN Raised("AttributeError", error_message)
    ELSE IF contains(error_message.v, QuotaPhrase)
         THEN QuotaExceededError
         ELSE Raised("AuthenticationError", error_message)

\* Lines 141-144: error_message.lower() exists on a str only.
handle_403(error_message) ==
    IF error_message.t # "str"
    THEN Raised("AttributeError", error_message)
    ELSE IF contains(lower(error_message.v), QuotaPhrase)
         THEN QuotaExceededError
         ELSE Raised("AuthenticationError", error_message)

handle_response(resp) ==
    IF resp.status_code < 400
    THEN Returned(resp)
    ELSE LET error_message == error_message_of(resp)
             code == resp.status_code
         IN  CASE code = 401 -> Raised("AuthenticationError", error_message)
               [] code = 403 -> handle_403(error_message)
               [] code = 404 -> Raised("ResourceNotFoundError", error_message)
               [] code = 400 -> Raised("ValidationError", error_message)
               [] code >= 500 ->
                      Raised("NetworkError",
                             JStr(S_ServerError \o str_int(code) \o <<")", ":", " ">>
                                  \o py_str(error_message)))
               [] OTHER ->
                      Raised("NetworkError",
                             JStr(S_HTTP \o str_int(code) \o <<":", " ">>
                                  \o py_str(error_message)))

-----------------------------------------------------------------------------
(* MIMaaSClient._make_request (client.py:64-113).                          *)

\* What requests.request does: delivers a response, or raises one of the
\* requests exceptions the except clauses of lines 108-113 name.
TransportResults == {"response", "ConnectionError", "Timeout", "RequestException"}

\* Lines 105-113, given what the transport did.
after_transport(net, resp) ==
    CASE net = "response" -> handle_response(resp)
      [] net = "ConnectionError" ->
             Raised("NetworkError",
                    JStr(S_FailedToConnect \o DEFAULT_API_URL \o <<":", " ">>))
      [] net = "Timeout" ->
             Raised("NetworkError",
                    JStr(S_RequestTimeout \o str_int(DEFAULT_TIMEOUT) \o <<"s", ":", " ">>))
      [] OTHER ->
             Raised("NetworkError", JStr(S_RequestFailed))

\* Lines 88-113.  token is config.api_token (JNull when there is none).
make_request(require_auth, token, net, resp) ==
    IF require_auth /\ ~truthy(token)
    THEN Raised("AuthenticationError", JStr(S_NoToken))
    ELSE after_transport(net, resp)

\* One call of requests.request as _make_request issues it (lines 96-106):
\* the method, the endpoint, the Authorization header (Absent when the call
\* carries none), the stream flag, and whether _make_request raised for it.
transport_call(method, endpoint, require_auth, token, stream, r) ==
    [method |-> method, endpoint |-> endpoint,
     authorization |-> IF require_auth THEN token ELSE Absent,
     stream |-> stream, failed |-> r.tag = "raise"]

\* A transport wrapper that tries a failed call a second time.
issued_with_retry(log, method, endpoint, require_auth, token, stream, r) ==
    LET call == transport_call(method, endpoint, require_auth, token, stream, r)
    IN  IF require_auth /\ ~truthy(token) THEN log
        ELSE IF r.tag = "raise" THEN log \o <<call, call>>
        ELSE Append(log, call)

\* The log after one _make_request that ended with r: line 106 is reached
\* unless an authenticated call finds no token (lines 91-95).
issued(log, method, endpoint, require_auth, token, stream, r) ==
    IF require_auth /\ ~truthy(token) THEN log
    ELSE Append(log, transport_call(method, endpoint, require_auth, token, stream, r))

\* Endpoints (client.py:264, 275, 346, 367).
E_me == <<"/","m","e">>

E_boards == <<"/","a","p","i","/","b","o","a","r","d","s">>

E_requests == <<"/","a","p","i","/","r","e","q","u","e","s","t","s","/">>

\* f'/api/requests/{request_id}' (client.py:367, 409).
request_endpoint(id) == E_requests \o str_int(id)

\* No operation of a session has been invoked.
NoOp == [name |-> "none"]

\* A file system with the working directory alone (the path of no components).
NoFiles == [dirs |-> {<<>>}, regular |-> <<>>]

\* An environment with no MIMAAS_API_TOKEN and no token in the config file,
\* run by the owner of the token file.
NoEnviron == [MIMAAS_API_TOKEN |-> JNull, config_api_token |-> JNull, owner |-> TRUE]

SessionIdle ==
    /\ op = NoOp
    /\ files = NoFiles
    /\ token_file = Absent
    /\ history = <<>>
    /\ environ = NoEnviron

-----------------------------------------------------------------------------
(* The classifier applied to every status code and body shape.             *)

K_detail == <<"d","e","t","a","i","l">>

K_error == <<"e","r","r","o","r">>

T_invalid_token == <<"i","n","v","a","l","i","d"," ","t","o","k","e","n">>

T_no_runs_plan == <<"N","o"," ","a","v","a","i","l","a","b","l","e"," ","r","u","n","s"," ","f","o","r"," ","t","h","i","s"," ","p","l","a","n">>

T_NO_RUNS_UPPER == <<"N","O"," ","A","V","A","I","L","A","B","L","E"," ","R","U","N","S">>

T_forbidden == <<"f","o","r","b","i","d","d","e","n">>

\* A 64-character token would do; the client never looks inside it.
T_token == <<"a","b","c","1","2","3">>

\* Body shapes: empty, plain text, JSON objects with and without `message`,
\* with a `message` that is null, a number or empty, and JSON that is no object.
Bodies ==
    { TextBody(<<>>),
      TextBody(T_invalid_token),
      TextBody(T_no_runs_plan),
      TextBody(T_NO_RUNS_UPPER),
      JsonBody(JDict(<< <<K_message, JStr(T_no_runs_plan)>> >>)),
      JsonBody(JDict(<< <<K_message, JStr(T_forbidden)>> >>)),
      JsonBody(JDict(<< <<K_message, JStr(T_forbidden)>>,
                        <<K_detail, JStr(QuotaPhrase)>> >>)),
      JsonBody(JDict(<< <<K_error, JStr(T_NO_RUNS_UPPER)>> >>)),
      JsonBody(JDict(<< <<K_error, JStr(T_forbidden)>> >>)),
      JsonBody(JDict(<< <<K_message, JNull>> >>)),
      JsonBody(JDict(<< <<K_message, JNum(5)>> >>)),
      JsonBody(JDict(<< <<K_message, JStr(<<>>)>> >>)),
      JsonBody(JDict(<<>>)),
      JsonBody(JList(<< JStr(QuotaPhrase) >>)),
      JsonBody(JList(<<>>)),
      JsonBody(JStr(T_forbidden)),
      JsonBody(JNum(7)),
      JsonBody(JNull) }

StatusCodes == MinStatusCode..MaxStatusCode

Tokens == {JNull, JStr(T_token)}

ClassifyInit ==
    /\ pc = "request"
    /\ response = NoResponse
    /\ outcome = NoOutcome
    /\ api_token \in Tokens
    /\ now = 0
    /\ start_time = 0
    /\ timeout = 0
    /\ poll_interval = 0
    /\ request = JNull
    /\ elapsed = 0
    /\ polls = 0
    /\ sleeps = 0
    /\ ends = 0
    /\ request_id = 0
    /\ calls = <<>>
    /\ SessionIdle

\* One call of _make_request whose transport delivers a response.
request_answered ==
    /\ pc = "request"
    /\ \E require_auth \in BOOLEAN, code \in StatusCodes, body \in Bodies :
         /\ ~require_auth \/ truthy(api_token)
         /\ response' = Response(code, body)
         /\ outcome' = make_request(require_auth, api_token, "response", response')
         /\ calls' = issued(calls, "GET", IF require_auth THEN E_me ELSE E_boards,
                            require_auth, api_token, FALSE, outcome')
    /\ pc' = "done"
    /\ ends' = ends + 1
    /\ UNCHANGED <<now, start_time, timeout, poll_interval, request, elapsed,
                   polls, sleeps, api_token, request_id, session_vars>>

\* One call of _make_request that ends before any response: no token for an
\* authenticated call, or requests.request raises.
request_unanswered ==
    /\ pc = "request"
    /\ \E require_auth \in BOOLEAN, net \in TransportResults \ {"response"} :
         /\ outcome' = make_request(require_auth, api_token, net, NoResponse)
         /\ calls' = issued(calls, "GET", IF require_auth THEN E_me ELSE E_boards,
                            require_auth, api_token, FALSE, outcome')
    /\ response' = NoResponse
    /\ pc' = "done"
    /\ ends' = ends + 1
    /\ UNCHANGED <<now, start_time, timeout, poll_interval, request, elapsed,
                   polls, sleeps, api_token, request_id, session_vars>>

ClassifyNext == request_answered \/ request_unanswered

ClassifySpec == ClassifyInit /\ [][ClassifyNext]_vars

-----------------------------------------------------------------------------
(* Claims about the classifier, checked under ClassifySpec.                *)

\* A call whose transport delivered a response, after _make_request ended.
Classified == pc = "done" /\ response.status_code # 0

\* The exception classes of the client's taxonomy (exceptions.py).
TypedFailures ==
    {"NetworkError", "AuthenticationError", "QuotaExceededError",
     "ValidationError", "ProcessingError", "ResourceNotFoundError",
     "BoardNotAvailableError", "TimeoutError", "ConfigurationError"}

\* C1: for every status code c and body the classifier returns the response
\* iff c < 400, and for c >= 400 raises the one typed failure of the table:
\* 401 AuthenticationError, 403 QuotaExceededError or AuthenticationError,
\* 404 ResourceNotFoundError, 400 ValidationError, anything else the server
\* failure (which the code raises as NetworkError).
C1_ClassifierTable ==
    Classified =>
        LET c == response.status_code
            table == CASE c = 401 -> {"AuthenticationError"}
                       [] c = 403 -> {"QuotaExceededError", "AuthenticationError"}
                       [] c = 404 -> {"ResourceNotFoundError"}
                       [] c = 400 -> {"ValidationError"}
                       [] OTHER   -> {"NetworkError"}
        IN  /\ (outcome.tag = "return") <=> (c < 400)
            /\ c < 400 => outcome.value = response
            /\ c >= 400 => outcome.tag = "raise" /\ outcome.exc \in table

\* C2 as claimed: a 403 is QuotaExceededError iff the body text contains
\* "no available runs" in any letter case, and AuthenticationError otherwise
\* (read over the 403s that end in a typed failure, so that the escape of C4
\* is not what refutes it).
C2_QuotaIffBodyText ==
    Classified /\ response.status_code = 403 /\ outcome.tag = "raise"
               /\ outcome.exc \in TypedFailures =>
        /\ outcome.tag = "raise"
        /\ IF contains(lower(response.body.text), QuotaPhrase)
           THEN outcome.exc = "QuotaExceededError"
           ELSE outcome.exc = "AuthenticationError"

\* C2 as amended: a 403 is QuotaExceededError iff the extracted message (the
\* `message` member of a JSON object body, else the body text) is a string
\* containing the phrase in any letter case; AuthenticationError for every
\* other string message; a `message` that is no string escapes as
\* AttributeError.
C2_QuotaIffMessage ==
    Classified /\ response.status_code = 403 =>
        LET body == response.body
            from_json == body.is_json /\ body.doc.t = "dict"
                         /\ \E i \in 1..Len(body.doc.v) : body.doc.v[i][1] = K_message
            field == body.doc.v[CHOOSE i \in 1..Len(body.doc.v) :
                                    body.doc.v[i][1] = K_message][2]
            is_text == ~from_json \/ field.t = "str"
            text == IF from_json THEN field.v ELSE body.text
        IN  /\ outcome.tag = "raise"
            /\ outcome.exc = "QuotaExceededError"
                 <=> (is_text /\ contains(lower(text), QuotaPhrase))
            /\ outcome.exc = "AuthenticationError"
                 <=> (is_text /\ ~contains(lower(text), QuotaPhrase))
            /\ outcome.exc = "AttributeError" <=> ~is_text

\* C2 witness: a 403 whose JSON body names the phrase outside `message` and is
\* an AuthenticationError, after a 403 was classified.
C2_Witness ==
    /\ Classified
    /\ response.status_code = 403
    /\ response.body.is_json
    /\ contains(lower(response.body.text), QuotaPhrase)
    /\ outcome.tag = "raise"
    /\ outcome.exc = "AuthenticationError"

\* C3: a status >= 400 outside {400, 401, 403, 404} raises a server failure
\* that carries the status code and the message and whose kind is not the
\* kind raised for connection refused, DNS failure or a request timeout.
C3_ServerFailureDistinct ==
    Classified /\ response.status_code >= 400
               /\ response.status_code \notin {400, 401, 403, 404} =>
        LET transport_kinds ==
                { after_transport(net, NoResponse).exc :
                      net \in TransportResults \ {"response"} }
        IN  /\ outcome.tag = "raise"
            /\ outcome.arg.t = "str"
            /\ contains(outcome.arg.v, str_int(response.status_code))
            /\ outcome.exc \notin transport_kinds

\* C4: for every status >= 400 and body shape the extraction ends in the typed
\* failure of that status, and the message is the JSON `message` member when
\* present, else the body text when non-empty, else "HTTP {code}".
C4_ExtractionNeverRaises ==
    Classified /\ response.status_code >= 400 =>
        LET body == response.body
            from_json == body.is_json /\ body.doc.t = "dict"
                         /\ \E i \in 1..Len(body.doc.v) : body.doc.v[i][1] = K_message
            field == body.doc.v[CHOOSE i \in 1..Len(body.doc.v) :
                                    body.doc.v[i][1] = K_message][2]
            expected == IF from_json THEN field
                        ELSE IF body.text # <<>> THEN JStr(body.text)
                        ELSE JStr(<<"H","T","T","P"," ">> \o str_int(response.status_code))
        IN  /\ outcome.tag = "raise"
            /\ outcome.exc \in TypedFailures
            /\ outcome.exc \in {"AuthenticationError", "ResourceNotFoundError",
                                "ValidationError"}
                 => outcome.arg = expected

-----------------------------------------------------------------------------
(* Results.from_dict and Request.from_dict (models.py).                    *)

K_id == <<"i","d">>

K_status == <<"s","t","a","t","u","s">>

K_board == <<"b","o","a","r","d">>

K_quantize == <<"q","u","a","n","t","i","z","e">>

K_network == <<"n","e","t","w","o","r","k">>

K_folder_name == <<"f","o","l","d","e","r","_","n","a","m","e">>

K_error_message == <<"e","r","r","o","r","_","m","e","s","s","a","g","e">>

K_result == <<"r","e","s","u","l","t">>

K_ram_usage == <<"r","a","m","_","u","s","a","g","e">>

K_rom_usage == <<"r","o","m","_","u","s","a","g","e">>

K_duration_avg_s == <<"d","u","r","a","t","i","o","n","_","a","v","g","_","s">>

K_avg_power_uW == <<"a","v","g","_","p","o","w","e","r","_","u","W">>

K_avg_energy_uJ == <<"a","v","g","_","e","n","e","r","g","y","_","u","J">>

\* The keys Results.from_dict subscripts, in the order it does (models.py:119-123).
ResultKeys ==
    <<K_ram_usage, K_rom_usage, K_duration_avg_s, K_avg_power_uW, K_avg_energy_uJ>>

\* A Results object: its five fields in the order of ResultKeys.
Results(fields) == [t |-> "Results", v |-> fields]

\* Results.from_dict (models.py:115-124).  data['ram_usage'] raises TypeError
\* when data is no dict (a list, a str, a number, a bool) and KeyError when
\* the dict lacks the key.
Results_from_dict(data) ==
    IF data.t # "dict"
    THEN Raised("TypeError", data)
    ELSE IF \E i \in 1..Len(ResultKeys) : ~has_key(data, ResultKeys[i])
         THEN Raised("KeyError",
                     JStr(ResultKeys[CHOOSE i \in 1..Len(ResultKeys) :
                              /\ ~has_key(data, ResultKeys[i])
                              /\ \A j \in 1..(i - 1) : has_key(data, ResultKeys[j])]))
         ELSE Returned(Results([i \in 1..Len(ResultKeys) |-> item(data, ResultKeys[i])]))

\* FromDictCaught with `except KeyError` alone.
FromDictCaught_KeyErrorOnly == {"KeyError"}

\* The exceptions the except clause of models.py:181 catches.
FromDictCaught == {"KeyError", "TypeError"}

\* Lines 177-182 of Request.from_dict: the `results` local, or the exception
\* that escapes the try.
embedded_results(data) ==
    IF ~truthy(dict_get(data, K_result, JNull))
    THEN Returned(JNull)
    ELSE LET r == Results_from_dict(item(data, K_result))
         IN  IF r.tag = "raise" /\ r.exc \in FromDictCaught
             THEN Returned(JNull)
             ELSE r

\* A Request object (models.py:137-147).
Request(id, status, board, quantize, network_path, folder_name, error_message, results) ==
    [t |-> "Request",
     v |-> [id |-> id, status |-> status, board |-> board, quantize |-> quantize,
            network_path |-> network_path, folder_name |-> folder_name,
            error_message |-> error_message, results |-> results]]

\* Request.from_dict (models.py:174-193).  data.get raises AttributeError when
\* data is no dict; data['id'], data['status'], data['board'] raise KeyError.
\* A Request whose status is taken to be done as soon as results are embedded.
Request_from_dict_inferring(data) ==
    IF data.t # "dict" \/ ~has_key(data, K_id) \/ ~has_key(data, K_status)
       \/ ~has_key(data, K_board) \/ embedded_results(data).tag = "raise"
    THEN Raised("KeyError", data)
    ELSE Returned(Request(item(data, K_id),
                          IF embedded_results(data).value.t = "Results"
                          THEN JStr(<<"d","o","n","e">>) ELSE item(data, K_status),
                          item(data, K_board),
                          dict_get(data, K_quantize, JFalse),
                          dict_get(data, K_network, JNull),
                          dict_get(data, K_folder_name, JNull),
                          dict_get(data, K_error_message, JNull),
                          embedded_results(data).value))

Request_from_dict(data) ==
    IF data.t # "dict"
    THEN Raised("AttributeError", data)
    ELSE LET r == embedded_results(data)
         IN  CASE r.tag = "raise" -> r
               [] r.tag # "raise" /\ ~has_key(data, K_id) -> Raised("KeyError", JStr(K_id))
               [] r.tag # "raise" /\ has_key(data, K_id) /\ ~has_key(data, K_status) ->
                      Raised("KeyError", JStr(K_status))
               [] r.tag # "raise" /\ has_key(data, K_id) /\ has_key(data, K_status)
                  /\ ~has_key(data, K_board) ->
                      Raised("KeyError", JStr(K_board))
               [] OTHER ->
                      Returned(Request(item(data, K_id), item(data, K_status),
                                       item(data, K_board),
                                       dict_get(data, K_quantize, JFalse),
                                       dict_get(data, K_network, JNull),
                                       dict_get(data, K_folder_name, JNull),
                                       dict_get(data, K_error_message, JNull),
                                       r.value))

\* MIMaaSClient.get_request (client.py:354-368): one authenticated GET, then
\* Request.from_dict(response.json()); response.json() raises on a body that
\* is not JSON.
get_request(token, net, resp) ==
    LET r == make_request(TRUE, token, net, resp)
    IN  IF r.tag = "raise" THEN r
        ELSE IF ~resp.body.is_json
             THEN Raised("JSONDecodeError", JStr(resp.body.text))
             ELSE Request_from_dict(resp.body.doc)

-----------------------------------------------------------------------------
(* get_request applied to every shape of request document.                 *)

S_pending == <<"p","e","n","d","i","n","g">>

S_processing == <<"p","r","o","c","e","s","s","i","n","g">>

S_done == <<"d","o","n","e">>

S_error == <<"e","r","r","o","r">>

S_queued == <<"q","u","e","u","e","d">>

T_board == <<"n","r","f","5","3","4","0","d","k">>

T_flash_failed == <<"f","l","a","s","h"," ","f","a","i","l","e","d">>

\* A complete `result` member.
FullResult ==
    JDict(<< <<K_ram_usage, JNum(20480)>>,
             <<K_rom_usage, JNum(131072)>>,
             <<K_duration_avg_s, [t |-> "num", v |-> <<"0", ".", "5">>]>>,
             <<K_avg_power_uW, JNum(1500)>>,
             <<K_avg_energy_uJ, JNum(750)>> >>)

\* The dict d without its member `key`.
without(d, key) == JDict(SelectSeq(d.v, LAMBDA m : m[1] # key))

\* The dict d with the value of its member `key` replaced.
with_value(d, key, x) ==
    JDict([i \in 1..Len(d.v) |-> IF d.v[i][1] = key THEN <<key, x>> ELSE d.v[i]])

\* Shapes of the `result` member: left out, null, complete, lacking one field,
\* complete with a null field, and values that are no mapping.
ResultPayloads ==
    { Absent, JNull, JDict(<<>>), FullResult,
      with_value(FullResult, K_avg_power_uW, JNull),
      JList(<<JNum(1)>>), JList(<<>>), JStr(S_pending), JStr(<<>>),
      JNum(3), JNum(0), JTrue, JFalse }
    \cup { without(FullResult, ResultKeys[i]) : i \in 1..Len(ResultKeys) }

ReportedStatuses ==
    { JStr(S_pending), JStr(S_processing), JStr(S_done), JStr(S_error),
      JStr(S_queued), JNull }

ErrorMessages == { Absent, JNull, JStr(<<>>), JStr(T_flash_failed) }

\* A member list that leaves out the members marked Absent.
members(ms) == SelectSeq(ms, LAMBDA m : m[2] # Absent)

RequestDoc(id, status, board, result, error_message) ==
    JDict(members(<< <<K_id, id>>, <<K_status, status>>, <<K_board, board>>,
                     <<K_error_message, error_message>>, <<K_result, result>> >>))

\* Bodies of a GET /api/requests/{id} answer: request documents, request
\* documents lacking a required member, JSON that is no object, and text.
FetchBodies ==
    { JsonBody(RequestDoc(JNum(7), st, JStr(T_board), res, em)) :
          st \in ReportedStatuses, res \in ResultPayloads, em \in ErrorMessages }
    \cup { JsonBody(RequestDoc(Absent, JStr(S_done), JStr(T_board), FullResult, Absent)),
           JsonBody(RequestDoc(JNum(7), Absent, JStr(T_board), FullResult, Absent)),
           JsonBody(RequestDoc(JNum(7), JStr(S_done), Absent, JList(<<>>), Absent)),
           JsonBody(JList(<<>>)),
           JsonBody(JNull),
           TextBody(<<>>),
           TextBody(T_forbidden) }

FetchCodes == {200, 201, 400, 401, 403, 404, 500}

FetchInit ==
    /\ pc = "fetch"
    /\ response = NoResponse
    /\ outcome = NoOutcome
    /\ api_token \in Tokens
    /\ now = 0
    /\ start_time = 0
    /\ timeout = 0
    /\ poll_interval = 0
    /\ request = JNull
    /\ elapsed = 0
    /\ polls = 0
    /\ sleeps = 0
    /\ ends = 0
    /\ request_id = 0
    /\ calls = <<>>
    /\ SessionIdle

\* One call of get_request whose GET is answered.
fetch_answered ==
    /\ pc = "fetch"
    /\ truthy(api_token)
    /\ \E code \in FetchCodes, body \in FetchBodies :
         /\ response' = Response(code, body)
         /\ outcome' = get_request(api_token, "response", response')
         /\ calls' = issued(calls, "GET", request_endpoint(request_id), TRUE, api_token,
                            FALSE, make_request(TRUE, api_token, "response", response'))
    /\ pc' = "done"
    /\ polls' = polls + 1
    /\ ends' = ends + 1
    /\ UNCHANGED <<now, start_time, timeout, poll_interval, request, elapsed,
                   sleeps, api_token, request_id, session_vars>>

\* One call of get_request that ends before any response.
fetch_unanswered ==
    /\ pc = "fetch"
    /\ \E net \in TransportResults \ {"response"} :
         /\ outcome' = get_request(api_token, net, NoResponse)
         /\ calls' = issued(calls, "GET", request_endpoint(request_id), TRUE, api_token,
                            FALSE, make_request(TRUE, api_token, net, NoResponse))
    /\ response' = NoResponse
    /\ pc' = "done"
    /\ polls' = polls + 1
    /\ ends' = ends + 1
    /\ UNCHANGED <<now, start_time, timeout, poll_interval, request, elapsed,
                   sleeps, api_token, request_id, session_vars>>

FetchNext == fetch_answered \/ fetch_unanswered

FetchSpec == FetchInit /\ [][FetchNext]_vars

\* C5: a successful fetch answer that carries id, status and board gives a
\* Request with the reported status whatever the `result` member is; results
\* are attached exactly when `result` is a mapping with all five fields, and
\* are absent (None), with nothing raised, for every other `result`.
C5_FetchBestEffortResult ==
    LET doc == response.body.doc
        carries(key) == \E i \in 1..Len(doc.v) : doc.v[i][1] = key
        member(key) == doc.v[CHOOSE i \in 1..Len(doc.v) : doc.v[i][1] = key][2]
        complete(res) ==
            /\ res.t = "dict"
            /\ \A k \in {K_ram_usage, K_rom_usage, K_duration_avg_s,
                         K_avg_power_uW, K_avg_energy_uJ} :
                   \E i \in 1..Len(res.v) : res.v[i][1] = k
    IN  /\ pc = "done"
        /\ response.status_code # 0
        /\ response.status_code < 400
        /\ response.body.is_json
        /\ doc.t = "dict"
        /\ carries(K_id) /\ carries(K_status) /\ carries(K_board)
        => /\ outcome.tag = "return"
           /\ outcome.value.t = "Request"
           /\ outcome.value.v.status = member(K_status)
           /\ outcome.value.v.id = member(K_id)
           /\ outcome.value.v.results.t \in {"Results", "null"}
           /\ outcome.value.v.results.t = "Results"
                <=> (carries(K_result) /\ complete(member(K_result)))

\* C5 witness: a fetch answered with status "done" and a `result` that is
\* present but is no complete mapping returned a Request without results.
C5_Witness ==
    /\ pc = "done"
    /\ response.status_code = 200
    /\ response.body.is_json
    /\ response.body.doc.t = "dict"
    /\ has_key(response.body.doc, K_result)
    /\ item(response.body.doc, K_result).t \in {"list", "dict", "str", "num"}
    /\ truthy(item(response.body.doc, K_result))
    /\ outcome.tag = "return"
    /\ outcome.value.v.status = JStr(S_done)
    /\ outcome.value.v.results = JNull

-----------------------------------------------------------------------------
(* MIMaaSClient.wait_for_completion (client.py:412-454).                   *)

\* "Request completed but no results available" (client.py:441)
S_NoResults == <<"R","e","q","u","e","s","t"," ","c","o","m","p","l","e","t","e","d"," ","b","u","t"," ","n","o"," ","r","e","s","u","l","t","s"," ","a","v","a","i","l","a","b","l","e">>

\* "Unknown error" (client.py:444)
S_UnknownError == <<"U","n","k","n","o","w","n"," ","e","r","r","o","r">>

\* "Processing failed" (exceptions.py:46)
S_ProcessingFailed == <<"P","r","o","c","e","s","s","i","n","g"," ","f","a","i","l","e","d">>

\* " at stage '" (exceptions.py:48)
S_AtStage == <<" ","a","t"," ","s","t","a","g","e"," ","'">>

\* "Request " (client.py:450)
S_Request == <<"R","e","q","u","e","s","t"," ">>

\* " did not complete within " (client.py:450)
S_DidNotComplete == <<" ","d","i","d"," ","n","o","t"," ","c","o","m","p","l","e","t","e"," ","w","i","t","h","i","n"," ">>

\* "s (status: " (client.py:450)
S_StatusOpen == <<"s"," ","(","s","t","a","t","u","s",":"," ">>

\* ProcessingError(stage, message) (exceptions.py:40-51).
ProcessingError(stage, message) ==
    [tag |-> "raise", exc |-> "ProcessingError",
     arg |-> JStr(S_ProcessingFailed
                  \o (IF truthy(stage) THEN S_AtStage \o py_str(stage) \o <<"'">> ELSE <<>>)
                  \o (IF truthy(message) THEN <<":", " ">> \o py_str(message) ELSE <<>>)),
     stage |-> stage, message |-> message]

\* is_successful comparing with "Done".
is_successful_capitalised(req) ==
    req.v.status.t = "str" /\ req.v.status.v = <<"D", "o", "n", "e">>

\* Request.is_successful (models.py:154-157).
is_successful(req) == req.v.status.t = "str" /\ req.v.status.v = S_done

\* A has_error that takes every status it does not know for a failure.
has_error_on_unknown_status(req) ==
    req.v.status \notin { JStr(<<"p","e","n","d","i","n","g">>),
                          JStr(<<"p","r","o","c","e","s","s","i","n","g">>),
                          JStr(<<"d","o","n","e">>) }

\* Request.has_error (models.py:169-172).
has_error(req) == req.v.status.t = "str" /\ req.v.status.v = S_error

\* timed_out with >= for >.
timed_out_inclusive(elapsed_s, timeout_s) == elapsed_s >= timeout_s

\* The test of client.py:448.
timed_out(elapsed_s, timeout_s) == elapsed_s > timeout_s

\* The MIMaaSTimeoutError of client.py:449-451.
TimeoutError(id, timeout_s, status) ==
    Raised("TimeoutError",
           JStr(S_Request \o str_int(id) \o S_DidNotComplete \o str_int(timeout_s)
                \o S_StatusOpen \o py_str(status) \o <<")">>))

\* examine returning request.results without testing it.
examine_without_results_check(req, id, t_now, t_start, timeout_s, elapsed_before) ==
    IF req.v.status.t = "str" /\ req.v.status.v = S_done
    THEN [next |-> "return", outcome |-> Returned(req.v.results),
          elapsed |-> elapsed_before]
    ELSE IF req.v.status.t = "str" /\ req.v.status.v = S_error
    THEN [next |-> "raise",
          outcome |-> ProcessingError(JNull,
                          IF truthy(req.v.error_message) THEN req.v.error_message
                          ELSE JStr(S_UnknownError)),
          elapsed |-> elapsed_before]
    ELSE IF t_now - t_start > timeout_s
    THEN [next |-> "raise", outcome |-> TimeoutError(id, timeout_s, req.v.status),
          elapsed |-> t_now - t_start]
    ELSE [next |-> "sleep", outcome |-> NoOutcome, elapsed |-> t_now - t_start]

\* examine testing the deadline before the status.
examine_deadline_first(req, id, t_now, t_start, timeout_s, elapsed_before) ==
    IF t_now - t_start > timeout_s
    THEN [next |-> "raise", outcome |-> TimeoutError(id, timeout_s, req.v.status),
          elapsed |-> t_now - t_start]
    ELSE IF req.v.status.t = "str" /\ req.v.status.v = S_done
    THEN IF truthy(req.v.results)
         THEN [next |-> "return", outcome |-> Returned(req.v.results),
               elapsed |-> t_now - t_start]
         ELSE [next |-> "raise", outcome |-> ProcessingError(JNull, JStr(S_NoResults)),
               elapsed |-> t_now - t_start]
    ELSE IF req.v.status.t = "str" /\ req.v.status.v = S_error
    THEN [next |-> "raise",
          outcome |-> ProcessingError(JNull,
                          IF truthy(req.v.error_message) THEN req.v.error_message
                          ELSE JStr(S_UnknownError)),
          elapsed |-> t_now - t_start]
    ELSE [next |-> "sleep", outcome |-> NoOutcome, elapsed |-> t_now - t_start]

\* examine polling again after a request that reported error.
examine_retry_after_error(req, id, t_now, t_start, timeout_s, elapsed_before) ==
    IF req.v.status.t = "str" /\ req.v.status.v = S_done
    THEN IF truthy(req.v.results)
         THEN [next |-> "return", outcome |-> Returned(req.v.results),
               elapsed |-> elapsed_before]
         ELSE [next |-> "raise", outcome |-> ProcessingError(JNull, JStr(S_NoResults)),
               elapsed |-> elapsed_before]
    ELSE IF req.v.status.t = "str" /\ req.v.status.v = S_error
    THEN [next |-> "sleep",
          outcome |-> ProcessingError(JNull,
                          IF truthy(req.v.error_message) THEN req.v.error_message
                          ELSE JStr(S_UnknownError)),
          elapsed |-> elapsed_before]
    ELSE IF t_now - t_start > timeout_s
    THEN [next |-> "raise", outcome |-> TimeoutError(id, timeout_s, req.v.status),
          elapsed |-> t_now - t_start]
    ELSE [next |-> "sleep", outcome |-> NoOutcome, elapsed |-> t_now - t_start]

\* examine testing the deadline between the two status tests: done still
\* wins over the deadline, error does not.
examine_deadline_before_error(req, id, t_now, t_start, timeout_s, elapsed_before) ==
    IF req.v.status.t = "str" /\ req.v.status.v = S_done
    THEN IF truthy(req.v.results)
         THEN [next |-> "return", outcome |-> Returned(req.v.results),
               elapsed |-> elapsed_before]
         ELSE [next |-> "raise", outcome |-> ProcessingError(JNull, JStr(S_NoResults)),
               elapsed |-> elapsed_before]
    ELSE IF t_now - t_start > timeout_s
    THEN [next |-> "raise", outcome |-> TimeoutError(id, timeout_s, req.v.status),
          elapsed |-> t_now - t_start]
    ELSE IF req.v.status.t = "str" /\ req.v.status.v = S_error
    THEN [next |-> "raise",
          outcome |-> ProcessingError(JNull,
                          IF truthy(req.v.error_message) THEN req.v.error_message
                          ELSE JStr(S_UnknownError)),
          elapsed |-> elapsed_before]
    ELSE [next |-> "sleep", outcome |-> NoOutcome, elapsed |-> t_now - t_start]

\* examine testing the deadline against the elapsed time of the iteration
\* before, and computing this iteration's only afterwards.
examine_stale_elapsed(req, id, t_now, t_start, timeout_s, elapsed_before) ==
    IF req.v.status.t = "str" /\ req.v.status.v = S_done
    THEN IF truthy(req.v.results)
         THEN [next |-> "return", outcome |-> Returned(req.v.results),
               elapsed |-> elapsed_before]
         ELSE [next |-> "raise", outcome |-> ProcessingError(JNull, JStr(S_NoResults)),
               elapsed |-> elapsed_before]
    ELSE IF req.v.status.t = "str" /\ req.v.status.v = S_error
    THEN [next |-> "raise",
          outcome |-> ProcessingError(JNull,
                          IF truthy(req.v.error_message) THEN req.v.error_message
                          ELSE JStr(S_UnknownError)),
          elapsed |-> elapsed_before]
    ELSE IF elapsed_before > timeout_s
    THEN [next |-> "raise", outcome |-> TimeoutError(id, timeout_s, req.v.status),
          elapsed |-> t_now - t_start]
    ELSE [next |-> "sleep", outcome |-> NoOutcome, elapsed |-> t_now - t_start]

\* Lines 438-454 of one iteration, after get_request returned req at time
\* t_now: what the iteration does next ("return", "raise", or "sleep"), the
\* outcome of the call if it ends here, and the `elapsed` local.
examine(req, id, t_now, t_start, timeout_s, elapsed_before) ==
    IF is_successful(req)
    THEN IF truthy(req.v.results)
         THEN [next |-> "return", outcome |-> Returned(req.v.results),
               elapsed |-> elapsed_before]
         ELSE [next |-> "raise", outcome |-> ProcessingError(JNull, JStr(S_NoResults)),
               elapsed |-> elapsed_before]
    ELSE IF has_error(req)
    THEN [next |-> "raise",
          outcome |-> ProcessingError(JNull,
                          IF truthy(req.v.error_message) THEN req.v.error_message
                          ELSE JStr(S_UnknownError)),
          elapsed |-> elapsed_before]
    ELSE IF timed_out(t_now - t_start, timeout_s)
    THEN [next |-> "raise", outcome |-> TimeoutError(id, timeout_s, req.v.status),
          elapsed |-> t_now - t_start]
    ELSE [next |-> "sleep", outcome |-> NoOutcome, elapsed |-> t_now - t_start]

\* What the server may answer to a poll of request id: the request in each
\* status, with and without results and error message, a document without
\* `status`, a body that is not JSON, and failures.
WaitAnswers(id) ==
    { Response(200, JsonBody(RequestDoc(JNum(id), st, JStr(T_board), Absent, Absent))) :
          st \in {JStr(S_pending), JStr(S_processing), JStr(S_queued)} }
    \cup
    { Response(200, JsonBody(RequestDoc(JNum(id), JStr(S_done), JStr(T_board), res, Absent))) :
          res \in {FullResult, Absent, JList(<<JNum(1)>>), without(FullResult, K_rom_usage)} }
    \cup
    { Response(200, JsonBody(RequestDoc(JNum(id), JStr(S_error), JStr(T_board), Absent, em))) :
          em \in {Absent, JStr(<<>>), JStr(T_flash_failed), JStr(S_NoResults)} }
    \cup
    { Response(200, JsonBody(RequestDoc(JNum(id), Absent, JStr(T_board), Absent, Absent))),
      Response(200, TextBody(T_forbidden)),
      Response(404, TextBody(<<>>)),
      Response(500, JsonBody(JDict(<< <<K_message, JStr(T_flash_failed)>> >>))) }

\* The timeout arguments followed: the small ones, and two larger ones that
\* let several polls at the default interval fit in the budget.
Timeouts == (0..MaxTimeout) \cup {10, 12}

PollIntervals == (0..MaxPollInterval) \cup {DEFAULT_POLL_INTERVAL}

Init ==
    /\ pc = "start"
    /\ response = NoResponse
    /\ outcome = NoOutcome
    /\ api_token \in Tokens
    /\ now \in 0..MaxStartTime
    /\ start_time = 0
    /\ timeout \in Timeouts
    /\ poll_interval \in PollIntervals
    /\ request_id \in 1..MaxRequestId
    /\ request = JNull
    /\ elapsed = 0
    /\ polls = 0
    /\ sleeps = 0
    /\ ends = 0
    /\ calls = <<>>
    /\ SessionIdle

\* Line 433: start_time = time.time().
wait_start ==
    /\ pc = "start"
    /\ start_time' = now
    /\ pc' = "poll"
    /\ UNCHANGED <<response, outcome, now, timeout, poll_interval, request, elapsed,
                   polls, sleeps, ends, api_token, request_id, calls, session_vars>>

\* A loop that swallows a failed fetch and polls again after the sleep.
after_get_request_retry(r) ==
    /\ polls' = polls + 1
    /\ IF r.tag = "raise"
       THEN /\ pc' = "sleep"
            /\ UNCHANGED <<outcome, ends, request>>
       ELSE /\ request' = r.value
            /\ pc' = "examine"
            /\ UNCHANGED <<outcome, ends>>

\* What a get_request call that ended with r does to the loop.
after_get_request(r) ==
    /\ polls' = polls + 1
    /\ IF r.tag = "raise"
       THEN /\ outcome' = r
            /\ pc' = "raised"
            /\ ends' = ends + 1
            /\ UNCHANGED request
       ELSE /\ request' = r.value
            /\ pc' = "examine"
            /\ UNCHANGED <<outcome, ends>>

\* Line 436, the GET answered after d seconds.
wait_poll_answered ==
    /\ pc = "poll"
    /\ polls < MaxPolls
    /\ truthy(api_token)
    /\ \E d \in {0, MaxFetchTime}, resp \in WaitAnswers(request_id) :
         /\ now' = now + d
         /\ response' = resp
         /\ after_get_request(get_request(api_token, "response", resp))
         /\ calls' = issued(calls, "GET", request_endpoint(request_id), TRUE, api_token,
                            FALSE, make_request(TRUE, api_token, "response", resp))
    /\ UNCHANGED <<start_time, timeout, poll_interval, elapsed, sleeps, api_token,
                   request_id, session_vars>>

\* Line 436, get_request ending before any response.
wait_poll_unanswered ==
    /\ pc = "poll"
    /\ polls < MaxPolls
    /\ \E d \in {0, MaxFetchTime}, net \in TransportResults \ {"response"} :
         /\ now' = now + d
         /\ response' = NoResponse
         /\ after_get_request(get_request(api_token, net, NoResponse))
         /\ calls' = issued(calls, "GET", request_endpoint(request_id), TRUE, api_token,
                            FALSE, make_request(TRUE, api_token, net, NoResponse))
    /\ UNCHANGED <<start_time, timeout, poll_interval, elapsed, sleeps, api_token,
                   request_id, session_vars>>

\* Lines 438-451: the status is examined, then the deadline.
wait_examine ==
    /\ pc = "examine"
    /\ LET step == examine(request, request_id, now, start_time, timeout, elapsed)
       IN  /\ pc' = CASE step.next = "return" -> "returned"
                      [] step.next = "raise"  -> "raised"
                      [] OTHER                -> "sleep"
           /\ outcome' = step.outcome
           /\ elapsed' = step.elapsed
           /\ ends' = IF step.outcome.tag = "none" THEN ends ELSE ends + 1
    /\ UNCHANGED <<response, now, start_time, timeout, poll_interval, request,
                   polls, sleeps, api_token, request_id, calls, session_vars>>

\* Line 454: time.sleep(poll_interval).
wait_sleep ==
    /\ pc = "sleep"
    /\ \E over \in {0, MaxOversleep} : now' = now + poll_interval + over
    /\ sleeps' = sleeps + 1
    /\ pc' = "poll"
    /\ UNCHANGED <<response, outcome, start_time, timeout, poll_interval, request,
                   elapsed, polls, ends, api_token, request_id, calls, session_vars>>

Next ==
    \/ wait_start
    \/ wait_poll_answered
    \/ wait_poll_unanswered
    \/ wait_examine
    \/ wait_sleep

Spec == Init /\ [][Next]_vars

-----------------------------------------------------------------------------
(* Claims about wait_for_completion, checked under Spec.                   *)

\* The last get_request returned a Request reporting `status`.
Reported(status) ==
    request.t = "Request" /\ request.v.status.t = "str" /\ request.v.status.v = status

\* The last get_request returned a Request that carries a Results object.
HasResults == request.t = "Request" /\ request.v.results.t = "Results"

\* The states of the wait: Polling, and the terminal Succeeded (a value was
\* returned), TimedOut (TimeoutError was raised) and Failed (anything else
\* was raised).
Succeeded == pc = "returned"

TimedOut == pc = "raised" /\ outcome.exc = "TimeoutError"

Failed == pc = "raised" /\ outcome.exc # "TimeoutError"

\* C6: when the k-th poll, and no earlier one, reports done with results (the
\* earlier polls reported a non-terminal status with elapsed <= timeout), the
\* wait returns exactly that Results object after exactly k get_request calls.
C6_ReturnsSummaryAtKthPoll ==
    /\ [](Succeeded => /\ Reported(S_done) /\ HasResults
                       /\ outcome = Returned(request.v.results)
                       /\ polls = sleeps + 1)
    /\ [](pc \in {"poll", "sleep"} /\ polls > 0 =>
              /\ ~Reported(S_done) /\ ~Reported(S_error)
              /\ elapsed <= timeout)
    /\ [][pc = "examine" /\ Reported(S_done) /\ HasResults =>
              /\ Succeeded'
              /\ outcome' = Returned(request.v.results)
              /\ polls' = polls]_vars

\* C6 witness: poll_interval 5, timeout 12, the third poll reports done with
\* results at elapsed time 10, and the wait returned them.
C6_Witness ==
    /\ Succeeded
    /\ poll_interval = 5
    /\ timeout = 12
    /\ polls = 3
    /\ now - start_time = 10
    /\ outcome = Returned(request.v.results)

\* C7 as claimed: done without results ends the wait with the "completed but
\* no results" ProcessingError; error ends it with a ProcessingError carrying
\* the server's error message when there is one and "Unknown error" otherwise;
\* and the first failure is distinct from every failure of the second kind.
C7_NoResultsDistinctFromRemoteError ==
    /\ pc # "examine" /\ Reported(S_done) /\ ~HasResults =>
           /\ Failed
           /\ outcome.exc = "ProcessingError"
           /\ outcome.message = JStr(S_NoResults)
    /\ pc # "examine" /\ Reported(S_error) =>
           /\ Failed
           /\ outcome.exc = "ProcessingError"
           /\ outcome.message =
                  IF request.v.error_message.t = "str" /\ request.v.error_message.v # <<>>
                  THEN request.v.error_message
                  ELSE JStr(S_UnknownError)
           /\ outcome.message # JStr(S_NoResults)

\* C7 as amended: as above, but both failures are a ProcessingError without a
\* stage and differ in the message alone, so the failure for an error status
\* is distinct from the "completed but no results" failure exactly when the
\* server's error message is not that same text.
C7_NoResultsAndRemoteError ==
    /\ pc # "examine" /\ Reported(S_done) /\ ~HasResults =>
           /\ Failed
           /\ outcome.exc = "ProcessingError"
           /\ outcome.stage = JNull
           /\ outcome.message = JStr(S_NoResults)
    /\ pc # "examine" /\ Reported(S_error) =>
           /\ Failed
           /\ outcome.exc = "ProcessingError"
           /\ outcome.stage = JNull
           /\ outcome.message =
                  IF request.v.error_message.t = "str" /\ request.v.error_message.v # <<>>
                  THEN request.v.error_message
                  ELSE JStr(S_UnknownError)
           /\ (outcome.message = JStr(S_NoResults))
                  <=> (request.v.error_message = JStr(S_NoResults))

\* C7 witness: a poll after at least one sleep reported done without results
\* and the wait raised the "completed but no results" ProcessingError.
C7_Witness ==
    /\ Failed
    /\ sleeps > 0
    /\ Reported(S_done)
    /\ ~HasResults
    /\ outcome.exc = "ProcessingError"
    /\ outcome.message = JStr(S_NoResults)

\* C8: an iteration that saw a non-terminal status raises TimeoutError iff
\* elapsed > timeout, and otherwise sleeps at least poll_interval and polls
\* again; the TimeoutError names the request id, the timeout and the status
\* the last get_request reported.
C8_TimeoutAtFirstOverrun ==
    /\ [][pc = "examine" /\ ~Reported(S_done) /\ ~Reported(S_error) =>
              IF now - start_time > timeout
              THEN /\ TimedOut'
                   /\ outcome'.arg =
                          JStr(S_Request \o str_int(request_id) \o S_DidNotComplete
                               \o str_int(timeout) \o S_StatusOpen
                               \o request.v.status.v \o <<")">>)
              ELSE /\ pc' = "sleep"
                   /\ outcome' = NoOutcome]_vars
    /\ [][pc = "sleep" =>
              /\ pc' = "poll"
              /\ now' >= now + poll_interval
              /\ sleeps' = sleeps + 1]_vars
    /\ [][pc = "poll" => polls' = polls + 1 /\ sleeps' = sleeps]_vars
    /\ [](TimedOut => /\ now - start_time > timeout
                      /\ ~Reported(S_done) /\ ~Reported(S_error))
    /\ [](pc = "sleep" => now - start_time <= timeout)

\* C8 witness: timeout 10, poll_interval 5, every poll reports pending at
\* elapsed 0, 5, 10 and 15, and the fourth iteration raised TimeoutError.
C8_Witness ==
    /\ TimedOut
    /\ timeout = 10
    /\ poll_interval = 5
    /\ polls = 4
    /\ sleeps = 3
    /\ now - start_time = 15
    /\ Reported(S_pending)

\* C9: the deadline is tested after the status of the iteration's own fetch:
\* a fetch that reports done with results at elapsed = timeout makes the wait
\* return, and TimeoutError is raised only over a non-terminal status, with
\* elapsed strictly above timeout.
C9_StatusBeforeDeadline ==
    /\ pc \in {"returned", "raised", "sleep"} /\ Reported(S_done) /\ HasResults
           => Succeeded
    /\ TimedOut => /\ ~Reported(S_done) /\ ~Reported(S_error)
                   /\ now - start_time # timeout

\* C9 witness: after at least one sleep the completing fetch came back at
\* elapsed = timeout and the wait returned its results.
C9_Witness ==
    /\ Succeeded
    /\ sleeps > 0
    /\ timeout > 0
    /\ now - start_time = timeout
    /\ Reported(S_done)
    /\ outcome = Returned(request.v.results)

\* C10: an invocation ends at most once, in exactly one of Succeeded, Failed
\* and TimedOut, and once it has ended it issues no get_request and no sleep
\* and does not end again.
C10_TerminalOnce ==
    /\ [](ends <= 1)
    /\ [](ends = 1 <=> (Succeeded \/ Failed \/ TimedOut))
    /\ [](Succeeded => outcome.tag = "return")
    /\ [](pc = "raised" => outcome.tag = "raise")
    /\ [](pc \notin {"returned", "raised"} => outcome = NoOutcome)
    /\ [][ends = 1 => /\ polls' = polls /\ sleeps' = sleeps
                      /\ ends' = ends /\ outcome' = outcome]_vars

\* C10 witness: the wait polled, slept, polled again and ended in Failed with
\* a ProcessingError.
C10_Witness ==
    /\ Failed
    /\ outcome.exc = "ProcessingError"
    /\ ends = 1
    /\ sleeps > 0
    /\ polls = sleeps + 1


-----------------------------------------------------------------------------
(* Propagation of fetch failures out of wait_for_completion, checked under *)
(* AnySpec, the specification of every operation (defined last).           *)

\* The fetch issued last failed: no token to send, the transport raised, the
\* response was classified as a failure, or its body could not be made into
\* a Request.
LastFetchFailed ==
    /\ polls > 0
    /\ \/ Len(calls) < polls
       \/ calls[Len(calls)].failed
       \/ ~response.body.is_json
       \/ Request_from_dict(response.body.doc).tag = "raise"

\* The failures get_request can end with for the response now held.
LastFetchFailures ==
    { get_request(api_token, net, response) :
          net \in IF response = NoResponse THEN TransportResults \ {"response"}
                  ELSE {"response"} }

\* C11: a fetch of wait_for_completion that fails ends the wait at once with
\* that very failure (never TimeoutError or ProcessingError, never swallowed),
\* no fetch is issued after a failed one, and in the log of the transport
\* calls of any operation a failed call is always the last.
C11_FetchFailurePropagates ==
    /\ [][pc = "poll" /\ LastFetchFailed' =>
              /\ pc' = "raised"
              /\ outcome' \in LastFetchFailures'
              /\ outcome'.exc \notin {"TimeoutError", "ProcessingError"}
              /\ ends' = ends + 1]_vars
    /\ [][polls' > polls => outcome.tag = "none" /\ ~LastFetchFailed]_vars
    /\ [](\A i \in 1..Len(calls) : calls[i].failed => i = Len(calls))

\* C11 witness: the wait ended with the 404 of its third fetch, after two
\* fetches that reported a non-terminal status.
C11_Witness ==
    /\ pc = "raised"
    /\ polls = 3
    /\ Len(calls) = 3
    /\ calls[3].failed
    /\ outcome.exc = "ResourceNotFoundError"
    /\ sleeps = 2


-----------------------------------------------------------------------------
(* The local file system as pathlib and open() see it.  A path is the       *)
(* sequence of its components; files.regular maps the path of a regular     *)
(* file to its content.                                                     *)

\* Path(p).parent and Path(p).name (client.py:502-503, 514).
parent(p) == SubSeq(p, 1, Len(p) - 1)

name(p) == p[Len(p)]

\* Path.exists().
exists(fs, p) == p \in fs.dirs \/ p \in DOMAIN fs.regular

\* Path.mkdir(parents=True, exist_ok=True): the directory and every missing
\* ancestor.
mkdir_parents(fs, p) ==
    [fs EXCEPT !.dirs = @ \cup { SubSeq(p, 1, k) : k \in 0..Len(p) }]

\* The bytes of a sequence of chunks, in order.
RECURSIVE concat(_)
concat(chunks) ==
    IF chunks = <<>> THEN <<>> ELSE Head(chunks) \o concat(Tail(chunks))

\* A download that opens the file anew for every chunk.
write_chunks_reopening(fs, p, chunks) ==
    [fs EXCEPT !.regular =
        (p :> (IF chunks = <<>> THEN <<>> ELSE chunks[Len(chunks)])) @@ @]

\* open(p, 'wb') and one f.write per chunk (client.py:516-518): the file is
\* created or truncated, then holds the chunks in order.
write_chunks(fs, p, chunks) ==
    [fs EXCEPT !.regular = (p :> concat(chunks)) @@ @]

\* A streamed response body: the chunks response.iter_content yields.
StreamBody(chunks) ==
    [is_json |-> FALSE, text |-> concat(chunks), doc |-> JNull, chunks |-> chunks]

\* response.iter_content(chunk_size=8192) (client.py:517).
iter_content(resp) ==
    IF "chunks" \in DOMAIN resp.body THEN resp.body.chunks
    ELSE IF resp.body.text = <<>> THEN <<>> ELSE << resp.body.text >>

-----------------------------------------------------------------------------
(* MIMaaSClient._download_artifact (client.py:482-518).                    *)

E_artifacts == <<"/","a","r","t","i","f","a","c","t","s","/">>

\* The artifact kinds of download_ram_report ... download_all_artifacts
\* (client.py:458-480).
ArtifactTypes ==
    { <<"r","a","m","_","r","e","p","o","r","t">>,
      <<"r","o","m","_","r","e","p","o","r","t">>,
      <<"p","o","w","e","r","_","s","u","m","m","a","r","y">>,
      <<"p","o","w","e","r","_","s","a","m","p","l","e","s">>,
      <<"m","o","d","e","l">>,
      <<"a","l","l">> }

\* f'/api/requests/{request_id}/artifacts/{artifact_type}' (client.py:508).
artifact_endpoint(id, artifact_type) ==
    E_requests \o str_int(id) \o E_artifacts \o artifact_type

\* The response _make_request hands to requests' caller: none when the call
\* never reached the transport or the transport raised.
delivered(require_auth, token, net, resp) ==
    IF (require_auth /\ ~truthy(token)) \/ net # "response" THEN NoResponse ELSE resp

\* Lines 501-504, given the Request of line 500: the output path with the
\* server's folder name put before the file name, when there is one.
\* pathlib's `/` raises TypeError for a folder name that is no string.
server_folder_path(output_path, req) ==
    LET folder_name == req.v.folder_name
    IN  IF ~truthy(folder_name) THEN Returned(output_path)
        ELSE IF folder_name.t # "str" THEN Raised("TypeError", folder_name)
        ELSE Returned(parent(output_path) \o <<folder_name.v>> \o <<name(output_path)>>)

\* Lines 499-504 (use_server_folder): get_request, then the output path.
lookup_folder(output_path, token, net, resp) ==
    LET r == get_request(token, net, resp)
    IN  IF r.tag = "raise" THEN r ELSE server_folder_path(output_path, r.value)

\* Lines 506-518: the streaming GET, then the parent directories and the
\* file.  Gives the outcome of the call and the file system it leaves.
save_artifact(fs, output_path, token, net, resp) ==
    LET r == make_request(TRUE, token, net, resp)
    IN  IF r.tag = "raise" THEN [outcome |-> r, files |-> fs]
        ELSE [outcome |-> Returned(JNull),
              files |-> write_chunks(mkdir_parents(fs, parent(output_path)),
                                     output_path, iter_content(resp))]

-----------------------------------------------------------------------------
(* The other operations of MIMaaSClient, and auth.save_token.              *)

K_api_token == <<"a","p","i","_","t","o","k","e","n">>

E_login == <<"/","l","o","g","i","n">>

E_register == <<"/","r","e","g","i","s","t","e","r">>

E_validate == <<"/","a","p","i","/","v","a","l","i","d","a","t","e">>

\* A file mode from its owner, group and other digits (0o600 is mode(6,0,0)).
mode(owner, group, other) == owner * 64 + group * 8 + other

\* response.json(): the document, or the decode error of a body that is not
\* JSON.
json_of(resp) ==
    IF resp.body.is_json THEN Returned(resp.body.doc)
    ELSE Raised("JSONDecodeError", JStr(resp.body.text))

\* data[key] for a string key: KeyError when a dict lacks it, TypeError for
\* a list, a string, a number, a boolean or None.
subscript(data, key) ==
    IF data.t # "dict" THEN Raised("TypeError", data)
    ELSE IF ~has_key(data, key) THEN Raised("KeyError", JStr(key))
    ELSE Returned(item(data, key))

\* What the disk lets save_token do with the token file tf: "writable",
\* "read_only" (open(token_file, 'w') raises), and, when there is no token
\* file yet, "parent_denied" (its directory does not exist and cannot be
\* created).
Disks(tf) ==
    {"writable", "read_only"} \cup (IF tf = Absent THEN {"parent_denied"} ELSE {})

\* auth.save_token (auth.py:14-42) on the token file tf: the directory is made
\* (line 31, before the try), the file is opened for writing (created with
\* the mode created_mode, or truncated), the token written, the mode set to
\* 0o600; any exception of lines 34-39 becomes ConfigurationError.  f.write
\* raises TypeError for a token that is no string.
save_token(token, tf, disk, created_mode) ==
    IF disk = "parent_denied"
    THEN [outcome |-> Raised("PermissionError", JNull), token_file |-> tf]
    ELSE IF disk = "read_only"
    THEN [outcome |-> Raised("ConfigurationError", token), token_file |-> tf]
    ELSE IF token.t # "str"
    THEN [outcome |-> Raised("ConfigurationError", token),
          token_file |-> [mode |-> IF tf = Absent THEN created_mode ELSE tf.mode,
                          content |-> <<>>]]
    ELSE [outcome |-> Returned(JNull),
          token_file |-> [mode |-> mode(6, 0, 0), content |-> token.v]]

\* login and register after their POST (client.py:177-187, 242-252), given
\* what _make_request ended with: the token of the answer replaces
\* config.api_token, is saved when asked, and is returned.
adopt_token(r, resp, save, token, tf, disk, created_mode) ==
    LET data == json_of(resp)
        new  == subscript(data.value, K_api_token)
        kept == [outcome |-> r, api_token |-> token, token_file |-> tf]
    IN  IF r.tag = "raise" THEN kept
        ELSE IF data.tag = "raise" THEN [kept EXCEPT !.outcome = data]
        ELSE IF new.tag = "raise" THEN [kept EXCEPT !.outcome = new]
        ELSE IF ~save
        THEN [outcome |-> Returned(new.value), api_token |-> new.value, token_file |-> tf]
        ELSE LET saved == save_token(new.value, tf, disk, created_mode)
             IN  [outcome |-> IF saved.outcome.tag = "raise" THEN saved.outcome
                              ELSE Returned(new.value),
                  api_token |-> new.value,
                  token_file |-> saved.token_file]

\* Lines 333-337 and 533-537: the model file must exist, and open() raises
\* for a directory.  Returned when the upload can start.
open_model(fs, model_path) ==
    IF ~exists(fs, model_path) THEN Raised("FileNotFoundError", JStr(name(model_path)))
    ELSE IF model_path \in fs.dirs THEN Raised("IsADirectoryError", JStr(name(model_path)))
    ELSE Returned(JNull)

\* submit_request (client.py:311-352).
submit_request(fs, model_path, token, net, resp) ==
    LET f == open_model(fs, model_path)
        r == make_request(TRUE, token, net, resp)
        data == json_of(resp)
    IN  IF f.tag = "raise" THEN f
        ELSE IF r.tag = "raise" THEN r
        ELSE IF data.tag = "raise" THEN data
        ELSE Request_from_dict(data.value)

\* validate_model (client.py:522-549).
validate_model(fs, model_path, token, net, resp) ==
    LET f == open_model(fs, model_path)
        r == make_request(TRUE, token, net, resp)
    IN  IF f.tag = "raise" THEN f
        ELSE IF r.tag = "raise" THEN r
        ELSE json_of(resp)

\* [Request.from_dict(req) for req in xs] for a sequence xs: the Requests, or
\* what the first failing element raises.
RECURSIVE requests_of(_)
requests_of(xs) ==
    IF xs = <<>> THEN Returned(<<>>)
    ELSE LET first == Request_from_dict(Head(xs))
             rest  == requests_of(Tail(xs))
         IN  IF first.tag = "raise" THEN first
             ELSE IF rest.tag = "raise" THEN rest
             ELSE Returned(<<first.value>> \o rest.value)

\* What `for req in data` iterates over: the items of a list, the keys of a
\* dict, the characters of a string; TypeError for anything else.
iterate(data) ==
    CASE data.t = "list" -> Returned(data.v)
      [] data.t = "dict" -> Returned([i \in 1..Len(data.v) |-> JStr(data.v[i][1])])
      [] data.t = "str"  -> Returned([i \in 1..Len(data.v) |-> JStr(<<data.v[i]>>)])
      [] OTHER -> Raised("TypeError", data)

\* list_requests (client.py:370-397).
list_requests(token, net, resp) ==
    LET r == make_request(TRUE, token, net, resp)
        data == json_of(resp)
        reqs == iterate(data.value)
        made == requests_of(reqs.value)
    IN  IF r.tag = "raise" THEN r
        ELSE IF data.tag = "raise" THEN data
        ELSE IF reqs.tag = "raise" THEN reqs
        ELSE IF made.tag = "raise" THEN made
        ELSE Returned(JList(made.value))

\* delete_request (client.py:399-410).
delete_request(token, net, resp) ==
    LET r == make_request(TRUE, token, net, resp)
    IN  IF r.tag = "raise" THEN r ELSE Returned(JTrue)

\* Keys of the user, board and plan documents (models.py:26-33, 62-71,
\* 216-221) and of the lists (client.py:278, 562).
K_username == <<"u","s","e","r","n","a","m","e">>

K_email == <<"e","m","a","i","l">>

K_first_name == <<"f","i","r","s","t","_","n","a","m","e">>

K_surname == <<"s","u","r","n","a","m","e">>

K_available_runs == <<"a","v","a","i","l","a","b","l","e","_","r","u","n","s">>

K_plan == <<"p","l","a","n">>

K_name == <<"n","a","m","e">>

K_variant == <<"v","a","r","i","a","n","t">>

K_board_type == <<"b","o","a","r","d","_","t","y","p","e">>

K_specifications == <<"s","p","e","c","i","f","i","c","a","t","i","o","n","s">>

K_flash_size == <<"f","l","a","s","h","_","s","i","z","e">>

K_ram_size == <<"r","a","m","_","s","i","z","e">>

K_max_available_tensor_arena_size == <<"m","a","x","_","a","v","a","i","l","a","b","l","e","_","t","e","n","s","o","r","_","a","r","e","n","a","_","s","i","z","e">>

K_voltage == <<"v","o","l","t","a","g","e">>

K_available_count == <<"a","v","a","i","l","a","b","l","e","_","c","o","u","n","t">>

K_price == <<"p","r","i","c","e">>

K_currency == <<"c","u","r","r","e","n","c","y">>

K_boards == <<"b","o","a","r","d","s">>

K_plans == <<"p","l","a","n","s">>

S_free == <<"f","r","e","e">>

S_USD == <<"U","S","D">>

E_plans == <<"/","a","p","i","/","p","l","a","n","s">>

S_slash_status == <<"/","s","t","a","t","u","s">>

\* f'/api/boards/{board_name}' (client.py:293).
board_endpoint(board_name) == E_boards \o <<"/">> \o board_name

\* f'/api/boards/{board_name}/status' (client.py:306).
board_status_endpoint(board_name) == board_endpoint(board_name) \o S_slash_status

\* data[k] for each k of keys in turn, as the keyword arguments of a from_dict
\* evaluate them: TypeError when data is no dict, KeyError for the first key
\* it lacks.
required(data, keys) ==
    LET missing == { i \in 1..Len(keys) : ~has_key(data, keys[i]) }
    IN  IF data.t # "dict" THEN Raised("TypeError", data)
        ELSE IF missing # {}
        THEN Raised("KeyError",
                    JStr(keys[CHOOSE i \in missing : \A j \in missing : i <= j]))
        ELSE Returned(data)

\* User.from_dict (models.py:23-34).
User_from_dict(data) ==
    LET r == required(data, <<K_id, K_username, K_email, K_first_name, K_surname,
                              K_available_runs>>)
    IN  IF r.tag = "raise" THEN r
        ELSE Returned([t |-> "User",
                       v |-> [id |-> item(data, K_id),
                              username |-> item(data, K_username),
                              email |-> item(data, K_email),
                              first_name |-> item(data, K_first_name),
                              surname |-> item(data, K_surname),
                              available_runs |-> item(data, K_available_runs),
                              plan |-> dict_get(data, K_plan, JStr(S_free))]])

\* Board.from_dict (models.py:59-72): data.get of line 62 comes first, the
\* specs.get of lines 67-70 after the three subscripts.
Board_from_dict(data) ==
    IF data.t # "dict" THEN Raised("AttributeError", data)
    ELSE LET specs == dict_get(data, K_specifications, JDict(<<>>))
             r == required(data, <<K_name, K_variant, K_board_type>>)
         IN  IF r.tag = "raise" THEN r
             ELSE IF specs.t # "dict" THEN Raised("AttributeError", specs)
             ELSE Returned([t |-> "Board",
                            v |-> [name |-> item(data, K_name),
                                   variant |-> item(data, K_variant),
                                   board_type |-> item(data, K_board_type),
                                   flash_size_kb |-> dict_get(specs, K_flash_size, JNum(0)),
                                   ram_size_kb |-> dict_get(specs, K_ram_size, JNum(0)),
                                   max_tensor_arena_kb |->
                                       dict_get(specs, K_max_available_tensor_arena_size,
                                                JNum(0)),
                                   voltage_mv |-> dict_get(specs, K_voltage, JNum(0)),
                                   available_count |->
                                       dict_get(data, K_available_count, JNum(0))]])

\* Plan.from_dict (models.py:213-222).
Plan_from_dict(data) ==
    LET r == required(data, <<K_id, K_name, K_available_runs>>)
    IN  IF r.tag = "raise" THEN r
        ELSE Returned([t |-> "Plan",
                       v |-> [id |-> item(data, K_id),
                              name |-> item(data, K_name),
                              available_runs |-> item(data, K_available_runs),
                              price |-> dict_get(data, K_price, JNum(0)),
                              currency |-> dict_get(data, K_currency, JStr(S_USD))]])

\* [Board.from_dict(board) for board in xs] for a sequence xs.
RECURSIVE boards_of(_)
boards_of(xs) ==
    IF xs = <<>> THEN Returned(<<>>)
    ELSE LET first == Board_from_dict(Head(xs))
             rest  == boards_of(Tail(xs))
         IN  IF first.tag = "raise" THEN first
             ELSE IF rest.tag = "raise" THEN rest
             ELSE Returned(<<first.value>> \o rest.value)

\* [Plan.from_dict(plan) for plan in xs] for a sequence xs.
RECURSIVE plans_of(_)
plans_of(xs) ==
    IF xs = <<>> THEN Returned(<<>>)
    ELSE LET first == Plan_from_dict(Head(xs))
             rest  == plans_of(Tail(xs))
         IN  IF first.tag = "raise" THEN first
             ELSE IF rest.tag = "raise" THEN rest
             ELSE Returned(<<first.value>> \o rest.value)

\* get_profile (client.py:254-265).
get_profile(token, net, resp) ==
    LET r == make_request(TRUE, token, net, resp)
        data == json_of(resp)
    IN  IF r.tag = "raise" THEN r
        ELSE IF data.tag = "raise" THEN data
        ELSE User_from_dict(data.value)

\* list_boards (client.py:269-278): no credential is asked for.
list_boards(net, resp) ==
    LET r == make_request(FALSE, Absent, net, resp)
        data == json_of(resp)
        boards == subscript(data.value, K_boards)
        each == iterate(boards.value)
        made == boards_of(each.value)
    IN  IF r.tag = "raise" THEN r
        ELSE IF data.tag = "raise" THEN data
        ELSE IF boards.tag = "raise" THEN boards
        ELSE IF each.tag = "raise" THEN each
        ELSE IF made.tag = "raise" THEN made
        ELSE Returned(JList(made.value))

\* get_board (client.py:280-294).
get_board(net, resp) ==
    LET r == make_request(FALSE, Absent, net, resp)
        data == json_of(resp)
    IN  IF r.tag = "raise" THEN r
        ELSE IF data.tag = "raise" THEN data
        ELSE Board_from_dict(data.value)

\* get_board_status (client.py:296-307).
get_board_status(net, resp) ==
    LET r == make_request(FALSE, Absent, net, resp)
    IN  IF r.tag = "raise" THEN r ELSE json_of(resp)

\* list_plans (client.py:553-562).
list_plans(net, resp) ==
    LET r == make_request(FALSE, Absent, net, resp)
        data == json_of(resp)
        plans == subscript(data.value, K_plans)
        each == iterate(plans.value)
        made == plans_of(each.value)
    IN  IF r.tag = "raise" THEN r
        ELSE IF data.tag = "raise" THEN data
        ELSE IF plans.tag = "raise" THEN plans
        ELSE IF each.tag = "raise" THEN each
        ELSE IF made.tag = "raise" THEN made
        ELSE Returned(JList(made.value))

-----------------------------------------------------------------------------
(* One invocation of a client operation, for every operation, argument,    *)
(* local file system and answer of the server.                             *)

\* The largest number of chunks of a streamed artifact.
MaxChunks == 2

T_token2 == <<"d","e","f","4","5","6">>

T_not_found == <<"n","o","t"," ","f","o","u","n","d">>

T_run1 == <<"r","u","n","1">>

K_valid == <<"v","a","l","i","d">>

P_out == <<"o","u","t">>

P_sub == <<"s","u","b">>

N_ram == <<"r","a","m",".","j","s","o","n">>

N_model == <<"m","o","d","e","l",".","t","f","l","i","t","e">>

N_missing == <<"m","i","s","s","i","n","g",".","t","f","l","i","t","e">>

\* The dict d with a member added, unless the value is Absent.
with_member(d, key, x) == IF x = Absent THEN d ELSE JDict(Append(d.v, <<key, x>>))

\* What requests.request may do for a call: each answer, or an exception.
Transport(answers) ==
    { <<"response", a>> : a \in answers }
    \cup { <<net, NoResponse>> : net \in TransportResults \ {"response"} }

\* Failure answers any endpoint may give.
FailureAnswers ==
    { Response(401, JsonBody(JDict(<< <<K_message, JStr(T_invalid_token)>> >>))),
      Response(403, JsonBody(JDict(<< <<K_message, JStr(T_no_runs_plan)>> >>))),
      Response(403, JsonBody(JDict(<< <<K_message, JNull>> >>))),
      Response(404, JsonBody(JDict(<< <<K_message, JStr(T_not_found)>> >>))),
      Response(404, TextBody(<<>>)),
      Response(400, TextBody(T_forbidden)),
      Response(500, TextBody(T_flash_failed)) }

T_ada == <<"a","d","a">>

T_variant == <<"c","p","u","a","p","p">>

\* A user document with every field of User.
UserDoc ==
    JDict(<< <<K_id, JNum(1)>>, <<K_username, JStr(T_ada)>>, <<K_email, JStr(T_ada)>>,
             <<K_first_name, JStr(T_ada)>>, <<K_surname, JStr(T_ada)>>,
             <<K_available_runs, JNum(5)>> >>)

\* A board document with the specifications given.
BoardDoc(specs) ==
    JDict(<< <<K_name, JStr(T_board)>>, <<K_variant, JStr(T_variant)>>,
             <<K_board_type, JStr(T_board)>>, <<K_specifications, specs>> >>)

\* A plan document.
PlanDoc ==
    JDict(<< <<K_id, JNum(1)>>, <<K_name, JStr(S_free)>>,
             <<K_available_runs, JNum(5)>> >>)

\* Answers to GET /me.
ProfileAnswers ==
    { Response(200, JsonBody(UserDoc)),
      Response(200, JsonBody(JDict(<< <<K_id, JNum(1)>> >>))),
      Response(200, TextBody(<<>>)) }
    \cup FailureAnswers

\* Answers to GET /api/boards.
BoardsAnswers ==
    { Response(200, JsonBody(JDict(<< <<K_boards,
                                        JList(<< BoardDoc(JDict(<<>>)) >>)>> >>))),
      Response(200, JsonBody(JDict(<< <<K_boards, JList(<<>>)>> >>))),
      Response(200, JsonBody(JDict(<<>>))),
      Response(200, JsonBody(JList(<<>>))) }
    \cup FailureAnswers

\* Answers to GET /api/boards/{name}.
BoardAnswers ==
    { Response(200, JsonBody(BoardDoc(JDict(<< <<K_flash_size, JNum(5)>> >>)))),
      Response(200, JsonBody(BoardDoc(JNull))),
      Response(200, JsonBody(JDict(<<>>))) }
    \cup FailureAnswers

\* Answers to GET /api/boards/{name}/status.
BoardStatusAnswers ==
    { Response(200, JsonBody(JDict(<< <<K_available_count, JNum(1)>> >>))),
      Response(200, TextBody(<<>>)) }
    \cup FailureAnswers

\* Answers to GET /api/plans.
PlansAnswers ==
    { Response(200, JsonBody(JDict(<< <<K_plans, JList(<< PlanDoc >>)>> >>))),
      Response(200, JsonBody(JDict(<< <<K_plans, JList(<< JNull >>)>> >>))),
      Response(200, JsonBody(JDict(<<>>))) }
    \cup FailureAnswers

\* Answers to POST /login and POST /register.
LoginAnswers ==
    { Response(200, JsonBody(JDict(<< <<K_api_token, JStr(T_token2)>> >>))),
      Response(200, JsonBody(JDict(<< <<K_api_token, JNum(5)>> >>))),
      Response(200, JsonBody(JDict(<<>>))),
      Response(200, JsonBody(JList(<<>>))),
      Response(200, TextBody(T_forbidden)) }
    \cup FailureAnswers

ADoc(id, status) == RequestDoc(JNum(id), status, JStr(T_board), Absent, Absent)

\* Answers to POST /api/requests/.
SubmitAnswers ==
    { Response(201, JsonBody(ADoc(7, JStr(S_pending)))),
      Response(201, JsonBody(RequestDoc(JNum(7), JStr(S_pending), Absent, Absent, Absent))),
      Response(200, JsonBody(JNull)),
      Response(200, TextBody(<<>>)) }
    \cup FailureAnswers

\* Answers to GET /api/requests/{id}.
GetAnswers(id) ==
    { Response(200, JsonBody(with_member(ADoc(id, JStr(S_done)), K_folder_name, f))) :
          f \in {Absent, JNull, JStr(<<>>), JStr(T_run1), JNum(5)} }
    \cup { Response(200, JsonBody(with_member(ADoc(id, Absent), K_folder_name, JStr(T_run1)))),
           Response(200, TextBody(T_forbidden)) }
    \cup FailureAnswers

\* Answers to GET /api/requests/.
ListAnswers ==
    { Response(200, JsonBody(JList(<<>>))),
      Response(200, JsonBody(JList(<< ADoc(1, JStr(S_done)), ADoc(2, JStr(S_pending)) >>))),
      Response(200, JsonBody(JList(<< ADoc(1, JStr(S_done)), ADoc(2, Absent) >>))),
      Response(200, JsonBody(JDict(<< <<K_message, JList(<<>>)>> >>))),
      Response(200, JsonBody(JNull)),
      Response(200, TextBody(<<>>)) }
    \cup FailureAnswers

\* Answers to DELETE /api/requests/{id}.
DeleteAnswers ==
    { Response(200, JsonBody(JDict(<< <<K_message, JStr(S_done)>> >>))),
      Response(204, TextBody(<<>>)) }
    \cup FailureAnswers

\* Answers to POST /api/validate.
ValidateAnswers ==
    { Response(200, JsonBody(JDict(<< <<K_valid, JTrue>> >>))),
      Response(200, TextBody(<<>>)) }
    \cup FailureAnswers

\* The ways an artifact body may be cut into chunks.
Chunks == { <<"a">>, <<"b", "c">> }

ChunkSeqs == UNION { [1..n -> Chunks] : n \in 0..MaxChunks }

\* Answers to GET /api/requests/{id}/artifacts/{kind}.
ArtifactAnswers ==
    { Response(200, StreamBody(chunks)) : chunks \in ChunkSeqs } \cup FailureAnswers

\* Output paths: in the working directory, in a directory, and two deep.
OutputPaths == { <<N_ram>>, <<P_out, N_ram>>, <<P_out, P_sub, N_ram>> }

\* Model paths: a regular file, a path that does not exist, and a directory.
ModelPaths == { <<N_model>>, <<N_missing>>, <<P_out>> }

\* File systems at the start: the model file in the working directory, with
\* and without the directory `out` holding an earlier download.
InitialFiles ==
    { [dirs |-> {<<>>}, regular |-> (<<N_model>> :> <<"m">>)],
      [dirs |-> {<<>>, <<P_out>>},
       regular |-> (<<N_model>> :> <<"m">>) @@ (<<P_out, N_ram>> :> <<"o", "l", "d">>)] }

InitialTokenFiles == { Absent, [mode |-> mode(6, 4, 4), content |-> T_token] }

ClientInit ==
    /\ pc = "idle"
    /\ response = NoResponse
    /\ outcome = NoOutcome
    /\ api_token \in Tokens
    /\ now = 0
    /\ start_time = 0
    /\ timeout = 0
    /\ poll_interval = 0
    /\ request = JNull
    /\ elapsed = 0
    /\ polls = 0
    /\ sleeps = 0
    /\ ends = 0
    /\ request_id = 0
    /\ calls = <<>>
    /\ op = NoOp
    /\ files \in InitialFiles
    /\ token_file \in InitialTokenFiles
    /\ history = <<>>
    /\ environ = NoEnviron

\* The end of an invocation: what it was, the calls it issued, the response it
\* saw last and what it returned or raised.
completes(o, sent, seen, out) ==
    /\ op' = o
    /\ calls' = sent
    /\ response' = seen
    /\ outcome' = out
    /\ pc' = "done"
    /\ ends' = ends + 1
    /\ UNCHANGED <<now, start_time, timeout, poll_interval, request, elapsed,
                   polls, sleeps, request_id, history, environ>>

\* login (client.py:156-187) and register (client.py:189-252).
do_login ==
    /\ pc = "idle"
    /\ \E which \in {"login", "register"}, save \in BOOLEAN,
          disk \in Disks(token_file), t \in Transport(LoginAnswers) :
         LET r == make_request(FALSE, api_token, t[1], t[2])
             a == adopt_token(r, t[2], save, api_token, token_file, disk,
                              mode(6, 4, 4))
         IN  /\ completes([name |-> which, save |-> save],
                          issued(calls, "POST",
                                 IF which = "login" THEN E_login ELSE E_register,
                                 FALSE, api_token, FALSE, r),
                          delivered(FALSE, api_token, t[1], t[2]), a.outcome)
             /\ api_token' = a.api_token
             /\ token_file' = a.token_file
    /\ UNCHANGED files

\* get_profile (client.py:254-265).
do_get_profile ==
    /\ pc = "idle"
    /\ \E t \in Transport(ProfileAnswers) :
         completes([name |-> "get_profile"],
                   issued(calls, "GET", E_me, TRUE, api_token, FALSE,
                          make_request(TRUE, api_token, t[1], t[2])),
                   delivered(TRUE, api_token, t[1], t[2]),
                   get_profile(api_token, t[1], t[2]))
    /\ UNCHANGED <<api_token, files, token_file>>

\* list_boards (client.py:269-278).
do_list_boards ==
    /\ pc = "idle"
    /\ \E t \in Transport(BoardsAnswers) :
         completes([name |-> "list_boards"],
                   issued(calls, "GET", E_boards, FALSE, api_token, FALSE,
                          make_request(FALSE, api_token, t[1], t[2])),
                   delivered(FALSE, api_token, t[1], t[2]),
                   list_boards(t[1], t[2]))
    /\ UNCHANGED <<api_token, files, token_file>>

\* get_board (client.py:280-294).
do_get_board ==
    /\ pc = "idle"
    /\ \E t \in Transport(BoardAnswers) :
         completes([name |-> "get_board", board_name |-> T_board],
                   issued(calls, "GET", board_endpoint(T_board), FALSE, api_token, FALSE,
                          make_request(FALSE, api_token, t[1], t[2])),
                   delivered(FALSE, api_token, t[1], t[2]),
                   get_board(t[1], t[2]))
    /\ UNCHANGED <<api_token, files, token_file>>

\* get_board_status (client.py:296-307).
do_get_board_status ==
    /\ pc = "idle"
    /\ \E t \in Transport(BoardStatusAnswers) :
         completes([name |-> "get_board_status", board_name |-> T_board],
                   issued(calls, "GET", board_status_endpoint(T_board), FALSE,
                          api_token, FALSE,
                          make_request(FALSE, api_token, t[1], t[2])),
                   delivered(FALSE, api_token, t[1], t[2]),
                   get_board_status(t[1], t[2]))
    /\ UNCHANGED <<api_token, files, token_file>>

\* list_plans (client.py:553-562).
do_list_plans ==
    /\ pc = "idle"
    /\ \E t \in Transport(PlansAnswers) :
         completes([name |-> "list_plans"],
                   issued(calls, "GET", E_plans, FALSE, api_token, FALSE,
                          make_request(FALSE, api_token, t[1], t[2])),
                   delivered(FALSE, api_token, t[1], t[2]),
                   list_plans(t[1], t[2]))
    /\ UNCHANGED <<api_token, files, token_file>>

\* submit_request (client.py:311-352).
do_submit_request ==
    /\ pc = "idle"
    /\ \E model_path \in ModelPaths, t \in Transport(SubmitAnswers) :
         LET opened == open_model(files, model_path).tag # "raise"
             r == make_request(TRUE, api_token, t[1], t[2])
         IN  completes([name |-> "submit_request", model_path |-> model_path],
                       IF opened
                       THEN issued(calls, "POST", E_requests, TRUE, api_token, FALSE, r)
                       ELSE calls,
                       IF opened THEN delivered(TRUE, api_token, t[1], t[2])
                       ELSE NoResponse,
                       submit_request(files, model_path, api_token, t[1], t[2]))
    /\ UNCHANGED <<api_token, files, token_file>>

\* validate_model (client.py:522-549).
do_validate_model ==
    /\ pc = "idle"
    /\ \E model_path \in ModelPaths, t \in Transport(ValidateAnswers) :
         LET opened == open_model(files, model_path).tag # "raise"
             r == make_request(TRUE, api_token, t[1], t[2])
         IN  completes([name |-> "validate_model", model_path |-> model_path],
                       IF opened
                       THEN issued(calls, "POST", E_validate, TRUE, api_token, FALSE, r)
                       ELSE calls,
                       IF opened THEN delivered(TRUE, api_token, t[1], t[2])
                       ELSE NoResponse,
                       validate_model(files, model_path, api_token, t[1], t[2]))
    /\ UNCHANGED <<api_token, files, token_file>>

\* get_request (client.py:354-368).
do_get_request ==
    /\ pc = "idle"
    /\ \E id \in 1..MaxRequestId : \E t \in Transport(GetAnswers(id)) :
         completes([name |-> "get_request", request_id |-> id],
                   issued(calls, "GET", request_endpoint(id), TRUE, api_token, FALSE,
                          make_request(TRUE, api_token, t[1], t[2])),
                   delivered(TRUE, api_token, t[1], t[2]),
                   get_request(api_token, t[1], t[2]))
    /\ UNCHANGED <<api_token, files, token_file>>

\* list_requests (client.py:370-397).
do_list_requests ==
    /\ pc = "idle"
    /\ \E t \in Transport(ListAnswers) :
         completes([name |-> "list_requests"],
                   issued(calls, "GET", E_requests, TRUE, api_token, FALSE,
                          make_request(TRUE, api_token, t[1], t[2])),
                   delivered(TRUE, api_token, t[1], t[2]),
                   list_requests(api_token, t[1], t[2]))
    /\ UNCHANGED <<api_token, files, token_file>>

\* delete_request (client.py:399-410).
do_delete_request ==
    /\ pc = "idle"
    /\ \E id \in 1..MaxRequestId, t \in Transport(DeleteAnswers) :
         completes([name |-> "delete_request", request_id |-> id],
                   issued(calls, "DELETE", request_endpoint(id), TRUE, api_token, FALSE,
                          make_request(TRUE, api_token, t[1], t[2])),
                   delivered(TRUE, api_token, t[1], t[2]),
                   delete_request(api_token, t[1], t[2]))
    /\ UNCHANGED <<api_token, files, token_file>>

\* The arguments of one _download_artifact call.
Download(id, artifact_type, output_path, use_server_folder) ==
    [name |-> "download_artifact", request_id |-> id, artifact_type |-> artifact_type,
     output_path |-> output_path, use_server_folder |-> use_server_folder,
     destination |-> output_path]

\* _download_artifact with use_server_folder, lines 499-504: the Request is
\* fetched and the destination gets the server's folder name.
download_lookup ==
    /\ pc = "idle"
    /\ \E id \in 1..MaxRequestId, artifact_type \in ArtifactTypes,
          output_path \in OutputPaths : \E t \in Transport(GetAnswers(id)) :
         LET o    == Download(id, artifact_type, output_path, TRUE)
             dest == lookup_folder(output_path, api_token, t[1], t[2])
             sent == issued(calls, "GET", request_endpoint(id), TRUE, api_token, FALSE,
                            make_request(TRUE, api_token, t[1], t[2]))
             seen == delivered(TRUE, api_token, t[1], t[2])
         IN  IF dest.tag = "raise"
             THEN completes(o, sent, seen, dest)
             ELSE /\ op' = [o EXCEPT !.destination = dest.value]
                  /\ calls' = sent
                  /\ response' = seen
                  /\ pc' = "artifact"
                  /\ UNCHANGED <<outcome, ends, now, start_time, timeout, poll_interval,
                                 request, elapsed, polls, sleeps, request_id, history,
                                 environ>>
    /\ UNCHANGED <<api_token, files, token_file>>

\* Lines 506-518 for the download o.
download_stream(o) ==
    \E t \in Transport(ArtifactAnswers) :
        LET saved == save_artifact(files, o.destination, api_token, t[1], t[2])
        IN  /\ completes(o,
                         issued(calls, "GET",
                                artifact_endpoint(o.request_id, o.artifact_type),
                                TRUE, api_token, TRUE,
                                make_request(TRUE, api_token, t[1], t[2])),
                         delivered(TRUE, api_token, t[1], t[2]),
                         saved.outcome)
            /\ files' = saved.files
            /\ UNCHANGED <<api_token, token_file>>

\* _download_artifact without use_server_folder.
download_direct ==
    /\ pc = "idle"
    /\ \E id \in 1..MaxRequestId, artifact_type \in ArtifactTypes,
          output_path \in OutputPaths :
         download_stream(Download(id, artifact_type, output_path, FALSE))

\* _download_artifact with use_server_folder, after the lookup.
download_after_lookup ==
    /\ pc = "artifact"
    /\ download_stream(op)

ClientNext ==
    \/ do_login
    \/ do_get_profile
    \/ do_list_boards
    \/ do_get_board
    \/ do_get_board_status
    \/ do_list_plans
    \/ do_submit_request
    \/ do_validate_model
    \/ do_get_request
    \/ do_list_requests
    \/ do_delete_request
    \/ download_lookup
    \/ download_direct
    \/ download_after_lookup

ClientSpec == ClientInit /\ [][ClientNext]_vars

-----------------------------------------------------------------------------
(* Claims about single invocations, checked under ClientSpec.              *)

\* The invocation that ended is one of the operations named.
Ended(names) == pc = "done" /\ op.name \in names

\* The invocation got as far as its first _make_request with a token to send.
ReachedTransport ==
    /\ truthy(api_token)
    /\ op.name \in {"submit_request", "validate_model"} =>
           open_model(files, op.model_path).tag # "raise"

\* The call is the streaming GET of the artifact of the download o.
IsArtifactGet(call, o) ==
    /\ call.method = "GET"
    /\ call.stream
    /\ call.endpoint = artifact_endpoint(o.request_id, o.artifact_type)

\* C12 as claimed: every download, fetch, list, remove, submit and validate
\* that gets as far as the transport issues exactly one transport call, and
\* for a download it is the streaming GET of the artifact.
C12_ExactlyOneTransportCall ==
    Ended({"download_artifact", "get_request", "list_requests", "delete_request",
           "submit_request", "validate_model"}) /\ ReachedTransport =>
        /\ Len(calls) = 1
        /\ op.name = "download_artifact" => IsArtifactGet(calls[1], op)

\* C12 as amended: one transport call per invocation that gets as far as the
\* transport (none without a token or without a model file), except that a
\* download with use_server_folder first issues the GET of the request and
\* issues the streaming GET of the artifact, as its second call, only when
\* that fetch gave a Request.
C12_TransportCallsPerInvocation ==
    Ended({"download_artifact", "get_request", "list_requests", "delete_request",
           "submit_request", "validate_model"}) =>
        IF ~ReachedTransport THEN calls = <<>>
        ELSE IF op.name # "download_artifact" THEN Len(calls) = 1
        ELSE IF ~op.use_server_folder
        THEN Len(calls) = 1 /\ IsArtifactGet(calls[1], op)
        ELSE /\ Len(calls) \in {1, 2}
             /\ calls[1].method = "GET"
             /\ ~calls[1].stream
             /\ calls[1].endpoint = request_endpoint(op.request_id)
             /\ Len(calls) = 2 => ~calls[1].failed /\ IsArtifactGet(calls[2], op)
             /\ Len(calls) = 1 => outcome.tag = "raise"

\* C12 witness: a download with use_server_folder that wrote its file after
\* two transport calls.
C12_Witness ==
    /\ Ended({"download_artifact"})
    /\ op.use_server_folder
    /\ outcome.tag = "return"
    /\ Len(calls) = 2
    /\ op.destination # op.output_path

\* C13: a submit or validate whose model path is not an existing readable
\* file issues no transport call and fails with the NotFound failure of the
\* taxonomy (ResourceNotFoundError).
C13_MissingModelIsNotFound ==
    Ended({"submit_request", "validate_model"})
    /\ open_model(files, op.model_path).tag = "raise" =>
        /\ calls = <<>>
        /\ outcome.tag = "raise"
        /\ outcome.exc = "ResourceNotFoundError"

\* C14, in the case it names: an operation whose response has a status below
\* 400 raises nothing but the typed failures of the taxonomy, whatever the
\* body is.
C14_FailuresAreTyped ==
    pc = "done" /\ response # NoResponse /\ response.status_code < 400
    /\ outcome.tag = "raise" =>
        outcome.exc \in TypedFailures

\* C16: delete_request returns True only for a DELETE answered with a status
\* below 400; a DELETE answered 404 raises ResourceNotFoundError; and every
\* DELETE answered with a status of 400 or more raises a typed failure.
C16_DeleteSuccessOnlyBelow400 ==
    Ended({"delete_request"}) =>
        /\ outcome.tag = "return" =>
               /\ outcome.value = JTrue
               /\ response # NoResponse
               /\ response.status_code < 400
        /\ response.status_code = 404 =>
               outcome.tag = "raise" /\ outcome.exc = "ResourceNotFoundError"
        /\ response.status_code >= 400 =>
               outcome.tag = "raise" /\ outcome.exc \in TypedFailures

\* The number of bytes before the k-th chunk.
RECURSIVE Offset(_, _)
Offset(chunks, k) ==
    IF k <= 1 THEN 0 ELSE Offset(chunks, k - 1) + Len(chunks[k - 1])

\* C19: a download whose artifact GET succeeded leaves, at its destination
\* (the output path, with the server's folder name before the file name when
\* use_server_folder found one), a regular file holding every chunk of the
\* response at its place and nothing else, inside directories that all exist.
C19_DownloadWritesChunksInOrder ==
    Ended({"download_artifact"}) /\ outcome.tag = "return" =>
        LET chunks == response.body.chunks
            dest   == op.destination
        IN  /\ dest \in DOMAIN files.regular
            /\ Len(files.regular[dest]) = Offset(chunks, Len(chunks) + 1)
            /\ \A k \in 1..Len(chunks) :
                   SubSeq(files.regular[dest], Offset(chunks, k) + 1,
                          Offset(chunks, k) + Len(chunks[k])) = chunks[k]
            /\ \A k \in 0..(Len(dest) - 1) : SubSeq(dest, 1, k) \in files.dirs
            /\ name(dest) = name(op.output_path)
            /\ ~op.use_server_folder => dest = op.output_path

\* C19 witness: a two-chunk artifact written two directories deep, where no
\* directory existed before.
C19_Witness ==
    /\ Ended({"download_artifact"})
    /\ outcome.tag = "return"
    /\ response.status_code = 200
    /\ Len(response.body.chunks) = 2
    /\ op.output_path = <<P_out, P_sub, N_ram>>
    /\ files.regular[op.destination] = <<"a", "b", "c">>
    /\ <<P_out, N_ram>> \notin DOMAIN files.regular

-----------------------------------------------------------------------------
(* A sequence of get_request calls for one work item.  The remote service  *)
(* is the environment: it may report any status at any fetch.              *)

\* The largest number of fetches of the work item.
MaxFetches == 3

\* Answers to the fetches: the work item in each status, with and without a
\* result, a work item without its board, a body that is not JSON, a 404.
StatusAnswers(id) ==
    { Response(200, JsonBody(RequestDoc(JNum(id), JStr(st), JStr(T_board), res, Absent))) :
          st \in {S_pending, S_processing, S_done, S_error}, res \in {Absent, FullResult} }
    \cup { Response(200, JsonBody(RequestDoc(JNum(id), JStr(S_done), Absent, Absent, Absent))),
           Response(200, TextBody(T_forbidden)),
           Response(404, TextBody(<<>>)) }

\* The status member of the work item a response carries (Absent when the
\* response carries none).
reported_status(resp) ==
    IF resp # NoResponse /\ resp.status_code < 400 /\ resp.body.is_json
       /\ resp.body.doc.t = "dict" /\ has_key(resp.body.doc, K_status)
    THEN item(resp.body.doc, K_status)
    ELSE Absent

FetchesInit ==
    /\ pc = "idle"
    /\ response = NoResponse
    /\ outcome = NoOutcome
    /\ api_token \in Tokens
    /\ now = 0
    /\ start_time = 0
    /\ timeout = 0
    /\ poll_interval = 0
    /\ request = JNull
    /\ elapsed = 0
    /\ polls = 0
    /\ sleeps = 0
    /\ ends = 0
    /\ request_id \in 1..MaxRequestId
    /\ calls = <<>>
    /\ op = NoOp
    /\ files = NoFiles
    /\ token_file = Absent
    /\ history = <<>>
    /\ environ = NoEnviron

\* One more get_request(request_id) (client.py:354-368), a new invocation.
fetch_again ==
    /\ pc = "idle"
    /\ Len(history) < MaxFetches
    /\ \E t \in Transport(StatusAnswers(request_id)) :
         LET r    == get_request(api_token, t[1], t[2])
             seen == delivered(TRUE, api_token, t[1], t[2])
         IN  /\ outcome' = r
             /\ response' = seen
             /\ calls' = issued(<<>>, "GET", request_endpoint(request_id), TRUE,
                                api_token, FALSE,
                                make_request(TRUE, api_token, t[1], t[2]))
             /\ history' = Append(history,
                                  [reported |-> reported_status(seen),
                                   returned |-> IF r.tag = "return"
                                                THEN r.value.v.status ELSE Absent])
    /\ op' = [name |-> "get_request", request_id |-> request_id]
    /\ ends' = ends + 1
    /\ UNCHANGED <<pc, now, start_time, timeout, poll_interval, request, elapsed,
                   polls, sleeps, api_token, request_id, files, token_file, environ>>

FetchesNext == fetch_again

FetchesSpec == FetchesInit /\ [][FetchesNext]_vars

\* The fetches that returned a work item, as indices of history.
Returns == { i \in 1..Len(history) : history[i].returned # Absent }

\* Status b may follow status a: Pending -> Processing -> {Done | Error},
\* nothing after Done or Error but itself.
MayFollow(a, b) ==
    LET rank(x) == CASE x = JStr(S_pending) -> 0
                     [] x = JStr(S_processing) -> 1
                     [] OTHER -> 2
    IN  IF rank(a) = 2 THEN b = a ELSE rank(b) >= rank(a)

\* C15 as claimed: across the fetches of one work item the returned statuses
\* only move forward.
C15_StatusesMoveForward ==
    \A i, j \in Returns : i < j => MayFollow(history[i].returned, history[j].returned)

\* C15 as amended: every fetch that returns a work item returns the status
\* its own response reported, so the returned statuses move forward whenever
\* the reported ones do.
C15_StatusesAsReported ==
    /\ \A i \in Returns : history[i].returned = history[i].reported
    /\ (\A i, j \in Returns : i < j => MayFollow(history[i].reported, history[j].reported))
        => C15_StatusesMoveForward

\* C15 witness: three fetches returned pending, processing and done.
C15_Witness ==
    /\ Len(history) = 3
    /\ Returns = {1, 2, 3}
    /\ history[1].returned = JStr(S_pending)
    /\ history[2].returned = JStr(S_processing)
    /\ history[3].returned = JStr(S_done)

-----------------------------------------------------------------------------
(* Where the credential comes from: auth.load_token (auth.py:45-86) and    *)
(* Config._get_api_token (config.py:69-96), then an authenticated call.    *)

T_env_token == <<"e","n","v","7","8","9">>

T_config_token == <<"c","f","g","0","0","0">>

\* str.strip(): leading and trailing whitespace removed.
Whitespace == {" ", "\n", "\t"}

RECURSIVE lstrip(_)
lstrip(s) ==
    IF s # <<>> /\ Head(s) \in Whitespace THEN lstrip(Tail(s)) ELSE s

RECURSIVE rstrip(_)
rstrip(s) ==
    IF s # <<>> /\ s[Len(s)] \in Whitespace THEN rstrip(SubSeq(s, 1, Len(s) - 1)) ELSE s

strip(s) == rstrip(lstrip(s))

\* The bitwise and of two file modes.
RECURSIVE bit_and(_, _)
bit_and(a, b) ==
    IF a = 0 \/ b = 0 THEN 0
    ELSE (a % 2) * (b % 2) + 2 * bit_and(a \div 2, b \div 2)

\* auth.py:68: file_mode & (S_IRGRP | S_IWGRP | S_IROTH | S_IWOTH).
insecure(file_mode) == bit_and(file_mode, mode(0, 6, 6)) # 0

\* open(token_file, 'r') succeeds: the owner's read bit for the owner of the
\* file, the others' read bit for anyone else.
readable(file_mode, owner) ==
    IF owner THEN bit_and(file_mode, mode(4, 0, 0)) # 0
    ELSE bit_and(file_mode, mode(0, 0, 4)) # 0

\* auth.load_token (auth.py:45-86) on the token file tf; chmod succeeds for
\* the owner of the file only.  Gives the outcome and the file it leaves.
load_token(tf, owner) ==
    IF tf = Absent THEN [outcome |-> Returned(JNull), token_file |-> tf]
    ELSE IF insecure(tf.mode) /\ ~owner
    THEN [outcome |-> Raised("ConfigurationError", JStr(str_int(tf.mode))),
          token_file |-> tf]
    ELSE LET kept == IF insecure(tf.mode) THEN [tf EXCEPT !.mode = mode(6, 0, 0)] ELSE tf
             token == strip(kept.content)
         IN  IF ~readable(kept.mode, owner)
             THEN [outcome |-> Raised("ConfigurationError", JNull), token_file |-> kept]
             ELSE [outcome |-> Returned(IF token = <<>> THEN JNull ELSE JStr(token)),
                   token_file |-> kept]

\* Config._get_api_token (config.py:69-96): the environment variable, else
\* the token file read as it is, else the config file.
get_api_token(env, tf) ==
    IF truthy(env.MIMAAS_API_TOKEN) THEN env.MIMAAS_API_TOKEN
    ELSE IF tf # Absent /\ readable(tf.mode, env.owner) /\ strip(tf.content) # <<>>
    THEN JStr(strip(tf.content))
    ELSE env.config_api_token

\* Config.__init__ (config.py:45): api_token or self._get_api_token(token_file).
config_api_token(explicit, env, tf) ==
    IF truthy(explicit) THEN explicit ELSE get_api_token(env, tf)

\* Modes of the token file: owner-only ones, and ones open to group or others.
FileModes ==
    { mode(6, 0, 0), mode(4, 0, 0), mode(6, 4, 4), mode(6, 6, 0), mode(6, 0, 4),
      mode(6, 2, 0), mode(7, 1, 1), mode(0, 4, 4) }

TokenFiles ==
    { Absent }
    \cup { [mode |-> m, content |-> c] :
               m \in FileModes, c \in { T_token, T_token \o <<"\n">>, <<"\n">> } }

Environs ==
    { [MIMAAS_API_TOKEN |-> e, config_api_token |-> c, owner |-> o] :
          e \in {JNull, JStr(T_env_token)}, c \in {JNull, JStr(T_config_token)},
          o \in BOOLEAN }

CredentialInit ==
    /\ pc = "start"
    /\ response = NoResponse
    /\ outcome = NoOutcome
    /\ api_token = JNull
    /\ now = 0
    /\ start_time = 0
    /\ timeout = 0
    /\ poll_interval = 0
    /\ request = JNull
    /\ elapsed = 0
    /\ polls = 0
    /\ sleeps = 0
    /\ ends = 0
    /\ request_id = 0
    /\ calls = <<>>
    /\ op = NoOp
    /\ files = NoFiles
    /\ token_file \in TokenFiles
    /\ history = <<>>
    /\ environ \in Environs

\* A call of auth.load_token().
call_load_token ==
    /\ pc = "start"
    /\ LET loaded == load_token(token_file, environ.owner)
       IN  /\ outcome' = loaded.outcome
           /\ token_file' = loaded.token_file
    /\ op' = [name |-> "load_token", found |-> token_file]
    /\ pc' = "loaded"
    /\ ends' = ends + 1
    /\ UNCHANGED <<response, api_token, now, start_time, timeout, poll_interval, request,
                   elapsed, polls, sleeps, request_id, calls, files, history, environ>>

\* MIMaaSClient(api_token=explicit) (client.py:56-62, config.py:45).
construct_client ==
    /\ pc = "start"
    /\ \E explicit \in Tokens :
         /\ api_token' = config_api_token(explicit, environ, token_file)
         /\ op' = [name |-> "MIMaaSClient", api_token |-> explicit]
    /\ pc' = "constructed"
    /\ UNCHANGED <<response, outcome, now, start_time, timeout, poll_interval, request,
                   elapsed, polls, sleeps, ends, request_id, calls, files, token_file,
                   history, environ>>

\* The first authenticated call of the new client: get_profile
\* (client.py:264).
authenticated_call ==
    /\ pc = "constructed"
    /\ \E t \in Transport(FailureAnswers \cup {Response(200, JsonBody(JDict(<<>>)))}) :
         LET r == make_request(TRUE, api_token, t[1], t[2])
         IN  /\ outcome' = r
             /\ response' = delivered(TRUE, api_token, t[1], t[2])
             /\ calls' = issued(calls, "GET", E_me, TRUE, api_token, FALSE, r)
    /\ pc' = "called"
    /\ ends' = ends + 1
    /\ UNCHANGED <<api_token, now, start_time, timeout, poll_interval, request, elapsed,
                   polls, sleeps, request_id, op, files, token_file, history, environ>>

CredentialNext == call_load_token \/ construct_client \/ authenticated_call

CredentialSpec == CredentialInit /\ [][CredentialNext]_vars

\* The token the new client holds was read from the token file.
TokenFromFile ==
    /\ op.name = "MIMaaSClient"
    /\ ~truthy(op.api_token)
    /\ ~truthy(environ.MIMAAS_API_TOKEN)
    /\ token_file # Absent
    /\ api_token = JStr(strip(token_file.content))

\* C17: load_token gives a token only from a file that is, or has been made,
\* owner-only, and fails with ConfigurationError when it cannot tighten the
\* mode; and no authenticated call carries a token read from a file whose
\* mode is still open to group or others.
C17_NoTokenFromInsecureFile ==
    /\ pc = "loaded" /\ outcome.tag = "return" /\ outcome.value # JNull =>
           ~insecure(token_file.mode)
    /\ pc = "loaded" /\ op.found # Absent /\ insecure(token_file.mode) =>
           outcome.tag = "raise" /\ outcome.exc = "ConfigurationError"
    /\ pc = "called" /\ calls # <<>> /\ TokenFromFile =>
           ~insecure(token_file.mode)

-----------------------------------------------------------------------------
(* wait_for_completion on one thread and login on another thread of the    *)
(* same client: both use self.config.api_token.                            *)

\* Waits with a small budget and a sleep between the polls.
ConcurrentInit ==
    /\ Init
    /\ timeout <= MaxTimeout
    /\ poll_interval \in 1..MaxPollInterval

\* Answers to the POST /login of the other thread.
ConcurrentLoginAnswers ==
    { Response(200, JsonBody(JDict(<< <<K_api_token, JStr(T_token2)>> >>))),
      Response(200, JsonBody(JDict(<<>>))),
      Response(401, JsonBody(JDict(<< <<K_message, JStr(T_invalid_token)>> >>))) }

\* login on the other thread (client.py:171-187), from its POST to its
\* return; line 181 stores the new token in the config the wait reads.
concurrent_login ==
    /\ op = NoOp
    /\ pc \in {"start", "poll", "examine", "sleep"}
    /\ \E save \in BOOLEAN, t \in Transport(ConcurrentLoginAnswers) :
         LET r == make_request(FALSE, api_token, t[1], t[2])
             a == adopt_token(r, t[2], save, api_token, token_file, "writable",
                              mode(6, 4, 4))
         IN  /\ api_token' = a.api_token
             /\ token_file' = a.token_file
             /\ op' = [name |-> "login", save |-> save, outcome |-> a.outcome]
    /\ UNCHANGED <<pc, response, outcome, now, start_time, timeout, poll_interval,
                   request, elapsed, polls, sleeps, ends, request_id, calls, files,
                   history, environ>>

\* The steps of the waiting thread leave the state of the other thread alone.
ConcurrentNext ==
    \/ Next
    \/ concurrent_login

ConcurrentSpec == ConcurrentInit /\ [][ConcurrentNext]_vars

\* C18: all the transport calls of one wait_for_completion carry the same
\* credential, whatever another thread of the same client does meanwhile.
C18_OneCredentialPerInvocation ==
    \A i, j \in 1..Len(calls) : calls[i].authorization = calls[j].authorization

-----------------------------------------------------------------------------
(* wait_for_completion and the status the remote side reports, checked     *)
(* under Spec.                                                             *)

\* C20: the wait examines the status its most recent fetch reported; it
\* returns only when that status is done, raises ProcessingError only when it
\* is done or error, and for every other status, known or not, the
\* iteration ends in the sleep before the next poll or in TimeoutError.
C20_NoLocalTerminalInference ==
    /\ [](pc = "examine" \/ Succeeded \/ TimedOut
           \/ (pc = "raised" /\ outcome.exc = "ProcessingError") =>
              /\ request.t = "Request"
              /\ request.v.status = reported_status(response))
    /\ [](Succeeded => Reported(S_done))
    /\ [](pc = "raised" /\ outcome.exc = "ProcessingError" =>
              Reported(S_done) \/ Reported(S_error))
    /\ [][pc = "examine" /\ ~Reported(S_done) /\ ~Reported(S_error) =>
              \/ pc' = "sleep" /\ outcome'.tag = "none"
              \/ TimedOut']_vars

\* C20 witness: a status outside the four known ones was polled three times
\* and the wait ended in TimeoutError.
C20_Witness ==
    /\ TimedOut
    /\ Reported(S_queued)
    /\ polls = 3
    /\ sleeps = 2

\* The wait has run over its budget: more than timeout seconds have passed
\* since start_time.
OverBudget == now - start_time > timeout

\* C21: a terminal status wins over the deadline: an iteration whose fetch
\* reported done or error ends the wait in Succeeded or Failed, never in
\* TimedOut and never in a sleep, also when elapsed already exceeds timeout;
\* TimeoutError is raised only by an iteration whose fetch reported a
\* non-terminal status.
C21_TerminalStatusBeatsDeadline ==
    /\ [][pc = "examine" /\ (Reported(S_done) \/ Reported(S_error)) =>
              /\ Succeeded' \/ Failed'
              /\ Succeeded' <=> Reported(S_done) /\ HasResults
              /\ now' = now]_vars
    /\ [][TimedOut' /\ ~TimedOut =>
              /\ pc = "examine"
              /\ ~Reported(S_done) /\ ~Reported(S_error)
              /\ request' = request]_vars

\* C21 witness: the fetch that reported error came back after the budget was
\* spent (a sleep or the fetch itself overran it) and the wait ended in
\* ProcessingError.
C21_Witness ==
    /\ Failed
    /\ outcome.exc = "ProcessingError"
    /\ Reported(S_error)
    /\ sleeps > 0
    /\ OverBudget

\* C21 second case: the fetch that reported done with results came back over
\* budget and the wait returned.
C21_WitnessDone ==
    /\ Succeeded
    /\ Reported(S_done)
    /\ OverBudget

\* The operations that ask _make_request for require_auth=True, and the ones
\* that do not.
AuthOps ==
    {"get_profile", "submit_request", "get_request", "list_requests",
     "delete_request", "download_artifact", "validate_model"}

NoAuthOps ==
    {"login", "register", "list_boards", "get_board", "get_board_status", "list_plans"}

\* C23: an operation that requires authentication, invoked without a
\* credential, raises AuthenticationError and issues no transport call; with
\* a credential every call it issues carries exactly the token as its
\* Authorization header; an operation that requires no authentication issues
\* its call, without an Authorization header, whether or not a credential is
\* held.
C23_AuthBeforeAnythingElse ==
    /\ Ended(AuthOps) /\ ~truthy(api_token) =>
           /\ outcome.tag = "raise"
           /\ outcome.exc = "AuthenticationError"
           /\ calls = <<>>
    /\ Ended(AuthOps) /\ truthy(api_token) =>
           \A i \in 1..Len(calls) : calls[i].authorization = api_token
    /\ Ended(NoAuthOps) =>
           /\ Len(calls) = 1
           /\ calls[1].authorization = Absent

\* C23 without submit_request and validate_model of a model file that cannot
\* be opened, which end before _make_request is called.
C23_AuthBeforeTransport ==
    /\ Ended(AuthOps) /\ ~truthy(api_token) =>
           /\ calls = <<>>
           /\ outcome.tag = "raise"
           /\ outcome.exc # "AuthenticationError" =>
                  /\ op.name \in {"submit_request", "validate_model"}
                  /\ open_model(files, op.model_path).tag = "raise"
                  /\ outcome = open_model(files, op.model_path)
    /\ Ended(AuthOps) /\ truthy(api_token) =>
           \A i \in 1..Len(calls) : calls[i].authorization = api_token
    /\ Ended(NoAuthOps) =>
           /\ Len(calls) = 1
           /\ calls[1].authorization = Absent

\* A step that is one whole login or register.
LoginEnds == pc = "idle" /\ pc' = "done" /\ op'.name \in {"login", "register"}

\* The POST failed in requests.request or in _handle_response.
FailedBeforeBody(resp) == resp = NoResponse \/ handle_response(resp).tag = "raise"

\* The POST was answered below 400 with a JSON object that has an api_token.
GaveToken(resp) ==
    /\ ~FailedBeforeBody(resp)
    /\ resp.body.is_json
    /\ resp.body.doc.t = "dict"
    /\ has_key(resp.body.doc, K_api_token)

\* The token file as save_token leaves it after writing `token`.
Persisted(token) == [mode |-> mode(6, 0, 0), content |-> token.v]

\* C24: a login or register whose POST fails at the transport or in the
\* classification leaves config.api_token and the token file as they were; one
\* that is given a token makes it config.api_token, returns it and leaves the
\* token file alone when save is false, and writes it to the token file when
\* save is true; the credential is replaced before the token is persisted,
\* and a call that fails after the replacement fails with ConfigurationError.
C24_CredentialThenTokenFile ==
    [][LoginEnds =>
           /\ FailedBeforeBody(response') =>
                  /\ outcome'.tag = "raise"
                  /\ api_token' = api_token
                  /\ token_file' = token_file
           /\ GaveToken(response') =>
                  /\ api_token' = item(response'.body.doc, K_api_token)
                  /\ ~op'.save => /\ token_file' = token_file
                                  /\ outcome' = Returned(api_token')
                  /\ op'.save /\ outcome'.tag = "return" =>
                         /\ token_file' = Persisted(api_token')
                         /\ outcome' = Returned(api_token')
                  /\ outcome'.tag = "raise" =>
                         /\ op'.save
                         /\ outcome'.exc = "ConfigurationError"]_vars

\* C24 without the kind of the failure: a call that fails after the
\* replacement fails in save_token, with ConfigurationError or, when the
\* directory of a token file that does not exist yet cannot be made, with
\* the error of mkdir.
C24_CredentialReplacedFirst ==
    [][LoginEnds =>
           /\ FailedBeforeBody(response') =>
                  /\ outcome'.tag = "raise"
                  /\ api_token' = api_token
                  /\ token_file' = token_file
           /\ GaveToken(response') =>
                  /\ api_token' = item(response'.body.doc, K_api_token)
                  /\ ~op'.save => /\ token_file' = token_file
                                  /\ outcome' = Returned(api_token')
                  /\ op'.save /\ outcome'.tag = "return" =>
                         /\ token_file' = Persisted(api_token')
                         /\ outcome' = Returned(api_token')
                  /\ outcome'.tag = "raise" =>
                         /\ op'.save
                         /\ outcome'.exc \in {"ConfigurationError", "PermissionError"}
                         /\ outcome'.exc = "PermissionError" =>
                                token_file = Absent /\ token_file' = Absent]_vars

-----------------------------------------------------------------------------
(* wait_for_completion run to its end: the interpreter executes the loop   *)
(* of lines 435-454 statement after statement, so a step that can be taken *)
(* is taken, and the sleep of line 454 lasts at least poll_interval > 0.   *)
(* C22 is checked under it.                                                *)

TerminatingInit ==
    /\ Init
    /\ timeout <= MaxTimeout
    /\ poll_interval > 0

TerminatingSpec == TerminatingInit /\ [][Next]_vars /\ WF_vars(Next)

\* No fetch took any time and no sleep lasted longer than asked: all the time
\* since start_time was spent in `sleeps` sleeps of poll_interval each.
Instantaneous == now - start_time = sleeps * poll_interval

\* C22: with poll_interval > 0 the wait always ends; no TimeoutError is
\* raised before the first get_request; and when every fetch took no time and
\* reported a non-terminal status, TimeoutError is raised after exactly
\* floor(timeout / poll_interval) + 2 get_request calls, at an elapsed time
\* above timeout by at most one poll_interval.
C22_TerminatesAfterCountedPolls ==
    /\ <>(Succeeded \/ Failed \/ TimedOut)
    /\ [](TimedOut => polls >= 1)
    /\ [](TimedOut /\ Instantaneous =>
              /\ polls = (timeout \div poll_interval) + 2
              /\ sleeps = polls - 1
              /\ (now - start_time) - timeout \in 1..poll_interval)

\* C22 witness: timeout 2 and poll_interval 2, fetches at elapsed 0, 2 and 4
\* all reported a non-terminal status, and the third raised TimeoutError one
\* whole poll_interval after the deadline.
C22_Witness ==
    /\ TimedOut
    /\ Instantaneous
    /\ timeout = 2
    /\ poll_interval = 2
    /\ polls = 3
    /\ now - start_time = timeout + poll_interval

\* C22 second case: timeout 0 still polls, here twice, before TimeoutError.
C22_WitnessZeroTimeout ==
    /\ TimedOut
    /\ Instantaneous
    /\ timeout = 0
    /\ polls = 2

-----------------------------------------------------------------------------
(* Every operation of the client: one wait_for_completion, or one          *)
(* invocation of another operation.  C11 is checked under it.              *)

AnyInit == Init \/ ClientInit

AnyNext == Next \/ ClientNext

AnySpec == AnyInit /\ [][AnyNext]_vars

=============================================================================
